---------------------------- MODULE Spec2Model ----------------------------
(***************************************************************************)
(* Model of the cross-run duplicate-detection and merge engine of the      *)
(* marketplace listing tool: the item catalog (src/src/item_catalog.py),   *)
(* the image organizer (src/src/image_organizer.py), the listing           *)
(* generator (src/src/listing_generator.py) and the grouping + merge pass  *)
(* _organize_and_list (src/main.py).                                       *)
(*                                                                         *)
(* Strings are sequences of one-character strings, so that the character   *)
(* level functions of the code (difflib's ratio, split, lower, the folder  *)
(* name normalisation, stem/suffix) are computed, not assumed.             *)
(* Floating point scores are exact rationals <<numerator, denominator>>.   *)
(***************************************************************************)
EXTENDS Integers, Sequences, FiniteSets, TLC

(***************************************************************************)
(* Characters and strings                                                  *)
(***************************************************************************)
LowerLetters == <<"a","b","c","d","e","f","g","h","i","j","k","l","m",
                  "n","o","p","q","r","s","t","u","v","w","x","y","z">>
UpperLetters == <<"A","B","C","D","E","F","G","H","I","J","K","L","M",
                  "N","O","P","Q","R","S","T","U","V","W","X","Y","Z">>
DigitChars == <<"0","1","2","3","4","5","6","7","8","9">>

Range(s) == {s[i] : i \in DOMAIN s}

\* str.lower() on one character
LowerChar(c) ==
    IF \E i \in DOMAIN UpperLetters : UpperLetters[i] = c
    THEN LowerLetters[CHOOSE i \in DOMAIN UpperLetters : UpperLetters[i] = c]
    ELSE c

\* str.lower()
RECURSIVE Lower(_)
Lower(s) == IF s = <<>> THEN <<>> ELSE <<LowerChar(Head(s))>> \o Lower(Tail(s))

\* the regex class \w (letters, digits, underscore)
IsWordChar(c) ==
    c \in Range(LowerLetters) \cup Range(UpperLetters) \cup Range(DigitChars) \cup {"_"}

\* the regex class \s
IsSpaceChar(c) == c = " "

\* str(n) for a natural number n
RECURSIVE IntToStr(_)
IntToStr(n) ==
    IF n < 10 THEN <<DigitChars[n + 1]>>
    ELSE IntToStr(n \div 10) \o <<DigitChars[(n % 10) + 1]>>

\* sep.join(parts)
RECURSIVE Join(_, _)
Join(parts, sep) ==
    IF parts = <<>> THEN <<>>
    ELSE IF Len(parts) = 1 THEN parts[1]
    ELSE parts[1] \o sep \o Join(Tail(parts), sep)

\* s.split(sep) for a one-character separator: "" gives [""], never []
RECURSIVE Split(_, _)
Split(s, sep) ==
    IF \A i \in DOMAIN s : s[i] # sep THEN <<s>>
    ELSE LET p == CHOOSE i \in DOMAIN s :
                      s[i] = sep /\ \A j \in 1..(i - 1) : s[j] # sep
         IN <<SubSeq(s, 1, p - 1)>> \o Split(SubSeq(s, p + 1, Len(s)), sep)

\* s.replace(a, b) for one-character a and a string b of one character
RECURSIVE ReplaceChar(_, _, _)
ReplaceChar(s, a, b) ==
    IF s = <<>> THEN <<>>
    ELSE <<IF Head(s) = a THEN b ELSE Head(s)>> \o ReplaceChar(Tail(s), a, b)

\* s.strip(chars): drop leading and trailing characters of the set
RECURSIVE LStrip(_, _)
LStrip(s, chars) ==
    IF s # <<>> /\ Head(s) \in chars THEN LStrip(Tail(s), chars) ELSE s
RECURSIVE RStrip(_, _)
RStrip(s, chars) ==
    IF s # <<>> /\ s[Len(s)] \in chars THEN RStrip(SubSeq(s, 1, Len(s) - 1), chars)
    ELSE s
Strip(s, chars) == RStrip(LStrip(s, chars), chars)

\* needle in haystack (substring test)
Contains(haystack, needle) ==
    \E i \in 1..(Len(haystack) - Len(needle) + 1) :
        SubSeq(haystack, i, i + Len(needle) - 1) = needle

\* list(dict.fromkeys(xs)): drop repeats, keep first occurrences in order
RECURSIVE DedupKeepOrder(_)
DedupKeepOrder(xs) ==
    IF xs = <<>> THEN <<>>
    ELSE LET front == DedupKeepOrder(SubSeq(xs, 1, Len(xs) - 1))
             x == xs[Len(xs)]
         IN IF x \in Range(front) THEN front ELSE Append(front, x)

(***************************************************************************)
(* Rationals <<n, d>> with d > 0, standing for the code's floats           *)
(***************************************************************************)
RECURSIVE Gcd(_, _)
Gcd(m, n) == IF n = 0 THEN m ELSE Gcd(n, m % n)

\* lowest terms, so that the integers stay small
RatNorm(p) ==
    LET g == Gcd(p[1], p[2])
    IN IF g = 0 THEN <<0, 1>> ELSE <<p[1] \div g, p[2] \div g>>

RatLess(p, q) == p[1] * q[2] < q[1] * p[2]
RatLeq(p, q) == p[1] * q[2] <= q[1] * p[2]
RatEq(p, q) == p[1] * q[2] = q[1] * p[2]
RatAdd(p, q) == RatNorm(<<p[1] * q[2] + q[1] * p[2], p[2] * q[2]>>)
RatMul(p, q) == RatNorm(<<p[1] * q[1], p[2] * q[2]>>)

(***************************************************************************)
(* difflib.SequenceMatcher(None, a, b).ratio(), without junk (autojunk     *)
(* only acts on sequences of 200 or more elements)                         *)
(***************************************************************************)
\* length of the common run of a from i and b from j, inside [.., ahi) x [.., bhi)
RECURSIVE CommonRun(_, _, _, _, _, _)
CommonRun(a, b, i, j, ahi, bhi) ==
    IF i < ahi /\ j < bhi /\ a[i] = b[j]
    THEN 1 + CommonRun(a, b, i + 1, j + 1, ahi, bhi)
    ELSE 0

\* the largest and the smallest element of a non-empty set of integers
MaxOf(S) == CHOOSE m \in S : \A n \in S : n <= m
MinOf(S) == CHOOSE m \in S : \A n \in S : m <= n

\* find_longest_match: the longest block, earliest in a, then earliest in b.
\* A longest block starts where a common run starts.
FindLongestMatch(a, b, alo, ahi, blo, bhi) ==
    LET starts == {p \in (alo..(ahi - 1)) \X (blo..(bhi - 1)) :
                       /\ a[p[1]] = b[p[2]]
                       /\ \/ p[1] = alo
                          \/ p[2] = blo
                          \/ a[p[1] - 1] # b[p[2] - 1]}
        runs == {<<p[1], p[2], CommonRun(a, b, p[1], p[2], ahi, bhi)>> : p \in starts}
        k == MaxOf({r[3] : r \in runs})
        i == MinOf({r[1] : r \in {q \in runs : q[3] = k}})
        j == MinOf({r[2] : r \in {q \in runs : q[3] = k /\ q[1] = i}})
    IN IF starts = {} THEN <<alo, blo, 0>> ELSE <<i, j, k>>

\* sum of the sizes of get_matching_blocks()
RECURSIVE MatchCount(_, _, _, _, _, _)
MatchCount(a, b, alo, ahi, blo, bhi) ==
    LET m == FindLongestMatch(a, b, alo, ahi, blo, bhi)
        i == m[1]
        j == m[2]
        k == m[3]
    IN IF k = 0 THEN 0
       ELSE k
            + (IF alo < i /\ blo < j THEN MatchCount(a, b, alo, i, blo, j) ELSE 0)
            + (IF i + k < ahi /\ j + k < bhi
               THEN MatchCount(a, b, i + k, ahi, j + k, bhi) ELSE 0)

\* a ratio that is 0.0 for two empty sequences
SeqRatioEmptyZero(a, b) ==
    LET length == Len(a) + Len(b)
    IN IF length > 0
       THEN <<2 * MatchCount(a, b, 1, Len(a) + 1, 1, Len(b) + 1), length>>
       ELSE <<0, 1>>

\* ratio(): 2.0 * matches / length, and 1.0 for two empty sequences
SeqRatio(a, b) ==
    LET length == Len(a) + Len(b)
    IN IF length > 0
       THEN <<2 * MatchCount(a, b, 1, Len(a) + 1, 1, Len(b) + 1), length>>
       ELSE <<1, 1>>

(***************************************************************************)
(* ItemCatalog._compute_similarity                                         *)
(***************************************************************************)
\* set(key.lower().split("_"))
KeyTokens(key) == Range(Split(Lower(key), "_"))

\* the Jaccard component
TokenScore(key_a, key_b) ==
    LET tokens_a == KeyTokens(key_a)
        tokens_b == KeyTokens(key_b)
    IN IF tokens_a # {} /\ tokens_b # {}
       THEN <<Cardinality(tokens_a \cap tokens_b), Cardinality(tokens_a \cup tokens_b)>>
       ELSE <<0, 1>>

\* a score that weighs the three components equally
ComputeSimilarityEqualWeights(text_a, key_a, text_b, key_b) ==
    LET text_score == SeqRatio(Lower(text_a), Lower(text_b))
        key_score == SeqRatio(Lower(key_a), Lower(key_b))
        token_score == TokenScore(key_a, key_b)
    IN RatMul(<<1, 3>>, RatAdd(RatAdd(text_score, key_score), token_score))

ComputeSimilarity(text_a, key_a, text_b, key_b) ==
    LET text_score == SeqRatio(Lower(text_a), Lower(text_b))
        key_score == SeqRatio(Lower(key_a), Lower(key_b))
        token_score == TokenScore(key_a, key_b)
    IN RatAdd(RatAdd(RatMul(<<3, 5>>, text_score),
                     RatMul(<<1, 5>>, key_score)),
              RatMul(<<1, 5>>, token_score))

\* the elements of xs at the positions of S, in order
RECURSIVE Pick(_, _)
Pick(xs, S) ==
    IF xs = <<>> THEN <<>>
    ELSE Pick(SubSeq(xs, 1, Len(xs) - 1), S)
         \o (IF Len(xs) \in S THEN <<xs[Len(xs)]>> ELSE <<>>)

(***************************************************************************)
(* The classification results the passes draw their batches from: four     *)
(* images of the input folder, in the order of their file names.           *)
(*   p1.jpg  b_m  Mug  Good  "blue mug"                                    *)
(*   p2.jpg  m_b  Mug  Good  "blue mug"     (same item, other key)         *)
(*   p3.jpg  b_m  Mug  Fair  "a blue mug"   (same key as p1.jpg)           *)
(*   p4.jpg  cup  Cup  Good  "red cup"      (another item)                 *)
(***************************************************************************)
\* two of FB_CONDITIONS and two of FB_CATEGORIES (image_analyzer.py)
COND_GOOD == <<"G","o","o","d">>
COND_FAIR == <<"F","a","i","r">>
CAT_OTHER == <<"O","t","h","e","r">>
CAT_TOOLS == <<"T","o","o","l","s">>
KEY_BM == <<"b","_","m">>
KEY_MB == <<"m","_","b">>
KEY_CUP == <<"c","u","p">>
IMG1 == <<"p","1",".","j","p","g">>
IMG2 == <<"p","2",".","j","p","g">>
IMG3 == <<"p","3",".","j","p","g">>
IMG4 == <<"p","4",".","j","p","g">>

\* str(input_folder / name)
ImagePath(name) == <<"i","n","/">> \o name

Results ==
    << [image_path |-> ImagePath(IMG1), image_name |-> IMG1, item_key |-> KEY_BM,
        item_name |-> <<"M","u","g">>,
        description |-> <<"b","l","u","e"," ","m","u","g">>,
        price |-> <<10>>, condition |-> COND_GOOD, category |-> CAT_OTHER],
       [image_path |-> ImagePath(IMG2), image_name |-> IMG2, item_key |-> KEY_MB,
        item_name |-> <<"M","u","g">>,
        description |-> <<"b","l","u","e"," ","m","u","g">>,
        price |-> <<12>>, condition |-> COND_GOOD, category |-> CAT_OTHER],
       [image_path |-> ImagePath(IMG3), image_name |-> IMG3, item_key |-> KEY_BM,
        item_name |-> <<"M","u","g">>,
        description |-> <<"a"," ","b","l","u","e"," ","m","u","g">>,
        price |-> <<20>>, condition |-> COND_FAIR, category |-> CAT_OTHER],
       [image_path |-> ImagePath(IMG4), image_name |-> IMG4, item_key |-> KEY_CUP,
        item_name |-> <<"C","u","p">>,
        description |-> <<"r","e","d"," ","c","u","p">>,
        price |-> <<5>>, condition |-> COND_GOOD, category |-> CAT_TOOLS] >>

(***************************************************************************)
(* ItemCatalog.build_canonical_text, and the scores of the items the       *)
(* batches can hold, computed once                                         *)
(***************************************************************************)
\* max(xs, key=len): the first longest element
LongestFirst(xs) ==
    xs[CHOOSE i \in DOMAIN xs :
           /\ \A j \in DOMAIN xs : Len(xs[j]) <= Len(xs[i])
           /\ \A j \in 1..(i - 1) : Len(xs[j]) < Len(xs[i])]

BuildCanonicalText(item_key, analyses) ==
    LET head == <<ReplaceChar(item_key, "_", " ")>>
        base == analyses[1]
        best_desc == LongestFirst([i \in DOMAIN analyses |-> analyses[i].description])
        parts == IF analyses = <<>> THEN head
                 ELSE head
                      \o (IF base.item_name # <<>> THEN <<base.item_name>> ELSE <<>>)
                      \o (IF base.category # <<>> THEN <<base.category>> ELSE <<>>)
                      \o (IF base.condition # <<>> THEN <<base.condition>> ELSE <<>>)
                      \o (IF best_desc # <<>> THEN <<best_desc>> ELSE <<>>)
    IN Join(parts, <<" ">>)

\* the groups a batch can hold: the results of one key, in order
KnownGroups ==
    {Pick(Results, S) :
         S \in {T \in SUBSET DOMAIN Results :
                    /\ T # {}
                    /\ \A i, j \in T : Results[i].item_key = Results[j].item_key}}

\* their (canonical_text, item_key)
KnownItems == {<<BuildCanonicalText(g[1].item_key, g), g[1].item_key>> : g \in KnownGroups}

\* _compute_similarity on every pair of them
SimilarityTable ==
    {<<p, ComputeSimilarity(p[1][1], p[1][2], p[2][1], p[2][2])>> :
         p \in KnownItems \X KnownItems}

\* _compute_similarity, looked up when the table holds the arguments
Similarity(text_a, key_a, text_b, key_b) ==
    IF <<text_a, key_a>> \in KnownItems /\ <<text_b, key_b>> \in KnownItems
    THEN (CHOOSE e \in SimilarityTable :
              e[1] = <<<<text_a, key_a>>, <<text_b, key_b>>>>)[2]
    ELSE ComputeSimilarity(text_a, key_a, text_b, key_b)

(***************************************************************************)
(* ItemCatalog: find_match, build_canonical_text, add_entry,               *)
(* update_entry_images.  The catalog is the sequence self._entries.        *)
(***************************************************************************)
\* main.py: DEFAULT_DUPLICATE_MERGE_THRESHOLD = 0.80
DEFAULT_DUPLICATE_MERGE_THRESHOLD == <<4, 5>>

\* the result None of find_match
NoMatch == [found |-> FALSE, index |-> 0, score |-> <<0, 1>>]

\* find_match: the score of the query against each entry, in catalog order
Scores(entries, canonical_text, item_key) ==
    [i \in DOMAIN entries |->
         Similarity(canonical_text, item_key,
                    entries[i].canonical_text, entries[i].item_key)]

\* the loop of find_match: best_entry (an index, 0 for None) and best_score
RECURSIVE FindBest(_, _, _, _)
FindBest(scores, i, best_index, best_score) ==
    IF i > Len(scores) THEN <<best_index, best_score>>
    ELSE IF RatLess(best_score, scores[i])
         THEN FindBest(scores, i + 1, i, scores[i])
         ELSE FindBest(scores, i + 1, best_index, best_score)

\* find_match without the threshold test of line 109
FindMatchAnyScore(entries, thr, canonical_text, item_key) ==
    LET best == FindBest(Scores(entries, canonical_text, item_key), 1, 0, <<0, 1>>)
    IN IF best[1] # 0
       THEN [found |-> TRUE, index |-> best[1], score |-> best[2]]
       ELSE NoMatch

FindMatch(entries, thr, canonical_text, item_key) ==
    LET best == FindBest(Scores(entries, canonical_text, item_key), 1, 0, <<0, 1>>)
    IN IF best[1] # 0 /\ RatLeq(thr, best[2])
       THEN [found |-> TRUE, index |-> best[1], score |-> best[2]]
       ELSE NoMatch

\* index of the first entry with exactly this key, 0 if there is none
KeyIndex(entries, item_key) ==
    IF \E i \in DOMAIN entries : entries[i].item_key = item_key
    THEN CHOOSE i \in DOMAIN entries :
             /\ entries[i].item_key = item_key
             /\ \A j \in 1..(i - 1) : entries[j].item_key # item_key
    ELSE 0

\* add_entry without the search for the key of lines 194-204
AddEntryAlwaysAppend(entries, now, item_key, title, canonical_text, image_names) ==
    Append(entries,
           [item_key |-> item_key,
            title |-> title,
            created_at |-> now,
            updated_at |-> now,
            canonical_text |-> canonical_text,
            representative_image_names |->
                IF image_names # <<>> THEN image_names[1] ELSE <<>>])

\* add_entry with existing + image_names in place of dict.fromkeys of it
AddEntryKeepRepeats(entries, now, item_key, title, canonical_text, image_names) ==
    LET i == KeyIndex(entries, item_key)
    IN IF i # 0
       THEN [entries EXCEPT ![i] =
                [@ EXCEPT !.title = title,
                          !.canonical_text = canonical_text,
                          !.updated_at = now,
                          !.representative_image_names =
                              IF image_names # <<>> THEN @ \o image_names[1]
                              ELSE @]]
       ELSE Append(entries,
                   [item_key |-> item_key,
                    title |-> title,
                    created_at |-> now,
                    updated_at |-> now,
                    canonical_text |-> canonical_text,
                    representative_image_names |->
                        IF image_names # <<>> THEN image_names[1] ELSE <<>>])

\* add_entry that removes the entry of the key and appends the updated one
AddEntryMoveToEnd(entries, now, item_key, title, canonical_text, image_names) ==
    LET i == KeyIndex(entries, item_key)
    IN IF i # 0
       THEN Append(SelectSeq(entries, LAMBDA e : e.item_key # item_key),
                   [entries[i] EXCEPT !.title = title,
                                      !.canonical_text = canonical_text,
                                      !.updated_at = now,
                                      !.representative_image_names =
                                          IF image_names # <<>>
                                          THEN DedupKeepOrder(@ \o image_names[1])
                                          ELSE @])
       ELSE Append(entries,
                   [item_key |-> item_key,
                    title |-> title,
                    created_at |-> now,
                    updated_at |-> now,
                    canonical_text |-> canonical_text,
                    representative_image_names |->
                        IF image_names # <<>> THEN image_names[1] ELSE <<>>])

\* image_names is Optional[list]: <<>> stands for None, <<names>> for a list
AddEntry(entries, now, item_key, title, canonical_text, image_names) ==
    LET i == KeyIndex(entries, item_key)
    IN IF i # 0
       THEN [entries EXCEPT ![i] =
                [@ EXCEPT !.title = title,
                          !.canonical_text = canonical_text,
                          !.updated_at = now,
                          !.representative_image_names =
                              IF image_names # <<>>
                              THEN DedupKeepOrder(@ \o image_names[1])
                              ELSE @]]
       ELSE Append(entries,
                   [item_key |-> item_key,
                    title |-> title,
                    created_at |-> now,
                    updated_at |-> now,
                    canonical_text |-> canonical_text,
                    representative_image_names |->
                        IF image_names # <<>> THEN image_names[1] ELSE <<>>])

\* update_entry_images that leaves updated_at as it is
UpdateEntryImagesKeepTime(entries, now, item_key, new_image_names) ==
    LET i == KeyIndex(entries, item_key)
    IN IF i # 0
       THEN [entries EXCEPT ![i] =
                [@ EXCEPT !.representative_image_names =
                              DedupKeepOrder(@ \o new_image_names)]]
       ELSE entries

\* update_entry_images with existing + new_image_names in place of
\* dict.fromkeys of it
UpdateEntryImagesKeepRepeats(entries, now, item_key, new_image_names) ==
    LET i == KeyIndex(entries, item_key)
    IN IF i # 0
       THEN [entries EXCEPT ![i] =
                [@ EXCEPT !.representative_image_names = @ \o new_image_names,
                          !.updated_at = now]]
       ELSE entries

UpdateEntryImages(entries, now, item_key, new_image_names) ==
    LET i == KeyIndex(entries, item_key)
    IN IF i # 0
       THEN [entries EXCEPT ![i] =
                [@ EXCEPT !.representative_image_names =
                              DedupKeepOrder(@ \o new_image_names),
                          !.updated_at = now]]
       ELSE entries

(***************************************************************************)
(* ImageOrganizer.  The output folder is a function from the names of the  *)
(* item folders that exist to their files (file name -> content).          *)
(***************************************************************************)
LISTING_TXT == <<"l","i","s","t","i","n","g",".","t","x","t">>
UNKNOWN_ITEM == <<"u","n","k","n","o","w","n","_","i","t","e","m">>

\* re.sub(r"[\s-]+", "_", name)
RECURSIVE CollapseSeparators(_)
CollapseSeparators(s) ==
    IF s = <<>> THEN <<>>
    ELSE IF IsSpaceChar(Head(s)) \/ Head(s) = "-"
         THEN <<"_">> \o CollapseSeparators(LStrip(s, {" ", "-"}))
         ELSE <<Head(s)>> \o CollapseSeparators(Tail(s))

MakeFolderName(item_key) ==
    LET stripped == Lower(Strip(item_key, {" "}))
        kept == SelectSeq(stripped,
                          LAMBDA c : IsWordChar(c) \/ IsSpaceChar(c) \/ c = "-")
        name == Strip(CollapseSeparators(kept), {"_"})
    IN IF name # <<>> THEN name ELSE UNKNOWN_ITEM

\* the first counter >= n whose candidate folder does not exist
RECURSIVE FreeFolderCounter(_, _, _)
FreeFolderCounter(fs, folder_name, n) ==
    IF (folder_name \o <<"_">> \o IntToStr(n)) \in DOMAIN fs
    THEN FreeFolderCounter(fs, folder_name, n + 1)
    ELSE n

\* the path create_item_folder returns
CreateItemFolderPath(fs, item_key) ==
    LET folder_name == MakeFolderName(item_key)
    IN IF folder_name \in DOMAIN fs
       THEN folder_name \o <<"_">> \o IntToStr(FreeFolderCounter(fs, folder_name, 2))
       ELSE folder_name

\* mkdir(parents=True, exist_ok=True): an empty folder unless it exists
MkDir(fs, folder_path) ==
    IF folder_path \in DOMAIN fs THEN fs
    ELSE [f \in DOMAIN fs \cup {folder_path} |->
              IF f = folder_path THEN <<>> ELSE fs[f]]

\* create_item_folder: the folders after the call
CreateItemFolder(fs, item_key) == MkDir(fs, CreateItemFolderPath(fs, item_key))

\* get_or_create_item_folder: <<>> stands for None, <<path>> for a path
GetOrCreateItemFolder(fs, item_key) ==
    LET folder_name == MakeFolderName(item_key)
    IN IF folder_name \in DOMAIN fs THEN <<folder_name>> ELSE <<>>

\* position of the last "." of a file name that starts a suffix, else 0
SuffixDot(name) ==
    LET dots == {i \in DOMAIN name : name[i] = "."}
        last == CHOOSE i \in dots : \A j \in dots : j <= i
    IN IF dots # {} /\ last > 1 /\ last < Len(name) THEN last ELSE 0

\* Path.stem and Path.suffix
FileStem(name) ==
    IF SuffixDot(name) = 0 THEN name ELSE SubSeq(name, 1, SuffixDot(name) - 1)
FileSuffix(name) ==
    IF SuffixDot(name) = 0 THEN <<>> ELSE SubSeq(name, SuffixDot(name), Len(name))

\* _move_to_processed, lines 130-136: the first counter from 1 on whose name
\* "{stem}_{counter}{suffix}" is free in the processed folder
RECURSIVE FreeProcessedCounter(_, _, _)
FreeProcessedCounter(names, name, counter) ==
    IF FileStem(name) \o <<"_">> \o IntToStr(counter) \o FileSuffix(name) \in names
    THEN FreeProcessedCounter(names, name, counter + 1)
    ELSE counter

\* _move_to_processed (main.py 123-144): the processed folder after the move
\* of the file called name
MoveToProcessed(names, name) ==
    IF name \in names
    THEN names \cup {FileStem(name) \o <<"_">>
                        \o IntToStr(FreeProcessedCounter(names, name, 1))
                        \o FileSuffix(name)}
    ELSE names \cup {name}

\* the loop of main.py 443-445 over successfully_analyzed
RECURSIVE MoveAllToProcessed(_, _)
MoveAllToProcessed(moved, names) ==
    IF moved = <<>> THEN names
    ELSE MoveAllToProcessed(Tail(moved), MoveToProcessed(names, Head(moved)))

\* successfully_analyzed as file names, in the order of the analyses
MovedNames(analyses) == [i \in DOMAIN analyses |-> analyses[i].image_name]

\* write_text / copy2: the file holds the content afterwards, new or not
WriteFile(fs, folder, name, content) ==
    [fs EXCEPT ![folder] =
        [n \in DOMAIN fs[folder] \cup {name} |->
             IF n = name THEN content ELSE fs[folder][n]]]

\* the first counter >= n for which <stem>_<n><suffix> is free
RECURSIVE FreeCopyCounter(_, _, _, _)
FreeCopyCounter(files, stem, suffix, n) ==
    IF (stem \o <<"_">> \o IntToStr(n) \o suffix) \in DOMAIN files
    THEN FreeCopyCounter(files, stem, suffix, n + 1)
    ELSE n

\* copy_image_to_folder without the renaming of lines 90-96
CopyDestSourceName(fs, source_name, dest_folder) == source_name

\* the path copy_image_to_folder writes and returns
CopyDest(fs, source_name, dest_folder) ==
    IF source_name \in DOMAIN fs[dest_folder]
    THEN FileStem(source_name) \o <<"_">>
         \o IntToStr(FreeCopyCounter(fs[dest_folder], FileStem(source_name),
                                     FileSuffix(source_name), 2))
         \o FileSuffix(source_name)
    ELSE source_name

\* copy_image_to_folder: the folders after the call
CopyImageToFolder(fs, source_name, content, dest_folder) ==
    WriteFile(fs, dest_folder, CopyDest(fs, source_name, dest_folder), content)

\* is_already_processed looking for an update note in place of listing.txt
IsAlreadyProcessedByNote(fs, item_folder) ==
    \E n \in DOMAIN fs[item_folder] : fs[item_folder][n].kind = "note"

IsAlreadyProcessed(fs, item_folder) == LISTING_TXT \in DOMAIN fs[item_folder]

\* grouping that starts a new group whenever the key differs from the key of
\* the result before
RECURSIVE GroupAdjacentRuns(_)
GroupAdjacentRuns(analyses) ==
    IF analyses = <<>> THEN <<>>
    ELSE LET front == GroupAdjacentRuns(SubSeq(analyses, 1, Len(analyses) - 1))
             a == analyses[Len(analyses)]
         IN IF front # <<>> /\ front[Len(front)].key = a.item_key
            THEN [front EXCEPT ![Len(front)].members = Append(@, a)]
            ELSE Append(front, [key |-> a.item_key, members |-> <<a>>])

\* group_analyses_by_item: a dict in insertion order, as a sequence of
\* [key, members]
RECURSIVE GroupAnalysesByItem(_)
GroupAnalysesByItem(analyses) ==
    IF analyses = <<>> THEN <<>>
    ELSE LET front == GroupAnalysesByItem(SubSeq(analyses, 1, Len(analyses) - 1))
             a == analyses[Len(analyses)]
         IN IF \E g \in DOMAIN front : front[g].key = a.item_key
            THEN [g \in DOMAIN front |->
                     IF front[g].key = a.item_key
                     THEN [front[g] EXCEPT !.members = Append(@, a)]
                     ELSE front[g]]
            ELSE Append(front, [key |-> a.item_key, members |-> <<a>>])

(***************************************************************************)
(* ListingGenerator: _merge_analyses, _build_title, generate_listing,      *)
(* get_listing_summary.  A file content is a record of the fields the      *)
(* code formats into the text.                                             *)
(***************************************************************************)
\* listing_generator.py: DEFAULT_PRICE = 10.0
DEFAULT_PRICE == 10

ITEM_FOR_SALE == <<"I","t","e","m"," ","f","o","r"," ","S","a","l","e">>
NO_DESCRIPTION ==
    <<"N","o"," ","d","e","s","c","r","i","p","t","i","o","n"," ",
      "a","v","a","i","l","a","b","l","e",".">>
NOT_AVAILABLE == <<"N","/","A">>

\* a title whose test for the condition in the name minds the letter case
BuildTitleCaseSensitive(item_name_raw, condition) ==
    LET item_name == Strip(item_name_raw, {" "})
    IN IF item_name = <<>>
          \/ Lower(item_name) = <<"u","n","k","n","o","w","n"," ","i","t","e","m">>
       THEN ITEM_FOR_SALE
       ELSE IF ~Contains(item_name, condition)
            THEN item_name \o <<" ","-"," ">> \o condition
                 \o <<" ","C","o","n","d","i","t","i","o","n">>
            ELSE item_name

BuildTitle(item_name_raw, condition) ==
    LET item_name == Strip(item_name_raw, {" "})
    IN IF item_name = <<>>
          \/ Lower(item_name) = <<"u","n","k","n","o","w","n"," ","i","t","e","m">>
       THEN ITEM_FOR_SALE
       ELSE IF ~Contains(Lower(item_name), Lower(condition))
            THEN item_name \o <<" ","-"," ">> \o condition
                 \o <<" ","C","o","n","d","i","t","i","o","n">>
            ELSE item_name

\* values.count(v)
CountOf(values, v) == Cardinality({i \in DOMAIN values : values[i] = v})

\* the value of the first member instead of the most frequent one
MostCommonOfBase(values, order) == values[1]

\* max(set(values), key=values.count): the first most frequent value in the
\* iteration order of the set, which the process's string hashing decides;
\* order lists the values in that iteration order
MostCommon(values, order) ==
    LET present == SelectSeq(order, LAMBDA v : v \in Range(values))
    IN present[CHOOSE i \in DOMAIN present :
                   /\ \A j \in DOMAIN present :
                          CountOf(values, present[j]) <= CountOf(values, present[i])
                   /\ \A j \in 1..(i - 1) :
                          CountOf(values, present[j]) < CountOf(values, present[i])]

RECURSIVE SumSeq(_)
SumSeq(xs) == IF xs = <<>> THEN 0 ELSE Head(xs) + SumSeq(Tail(xs))

\* [a["image_name"] for a in analyses if a.get("image_name")]
ImageNames(analyses) ==
    LET named == SelectSeq(analyses, LAMBDA a : a.image_name # <<>>)
    IN [i \in DOMAIN named |-> named[i].image_name]

\* a price is <<>> when it is no number, <<n>> for the number n
MergeAnalyses(analyses, order) ==
    IF analyses = <<>>
    THEN [title |-> ITEM_FOR_SALE, description |-> NO_DESCRIPTION,
          price |-> <<DEFAULT_PRICE, 1>>, condition |-> COND_GOOD, category |-> CAT_OTHER,
          images |-> NOT_AVAILABLE]
    ELSE LET base == analyses[1]
             best_description ==
                 LongestFirst([i \in DOMAIN analyses |-> analyses[i].description])
             numeric == SelectSeq(analyses, LAMBDA a : a.price # <<>>)
             prices == [i \in DOMAIN numeric |-> numeric[i].price[1]]
             avg_price == IF prices # <<>>
                          THEN RatNorm(<<SumSeq(prices), Len(prices)>>)
                          ELSE <<DEFAULT_PRICE, 1>>
             condition ==
                 MostCommon([i \in DOMAIN analyses |-> analyses[i].condition], order)
             category ==
                 MostCommon([i \in DOMAIN analyses |-> analyses[i].category], order)
             image_names == ImageNames(analyses)
         IN [title |-> BuildTitle(base.item_name, condition),
             description |-> IF best_description # <<>> THEN best_description
                             ELSE NO_DESCRIPTION,
             price |-> avg_price,
             condition |-> condition,
             category |-> category,
             images |-> IF image_names # <<>> THEN Join(image_names, <<",", " ">>)
                        ELSE NOT_AVAILABLE]

\* the text generate_listing writes to listing.txt
ListingContent(analyses, order) ==
    [kind |-> "listing", merged |-> MergeAnalyses(analyses, order)]

\* generate_listing: the folders after the call
GenerateListing(fs, item_folder, analyses, order) ==
    WriteFile(fs, item_folder, LISTING_TXT, ListingContent(analyses, order))

GetListingSummary(item_folder, analyses, order) ==
    LET merged == MergeAnalyses(analyses, order)
    IN [item_name |-> IF analyses # <<>> THEN analyses[1].item_name
                      ELSE <<"U","n","k","n","o","w","n">>,
        title |-> merged.title,
        description |-> merged.description,
        price |-> merged.price,
        condition |-> merged.condition,
        category |-> merged.category,
        image_count |-> Len(analyses),
        folder_path |-> item_folder]

Keys == {Results[i].item_key : i \in DOMAIN Results}

\* the largest batch a pass is given
MaxBatch == 2
\* passes over any batch, and passes over one image
MaxPasses == 2
MaxSinglePasses == 3
\* add_entry calls, update_entry_images calls and passes on a catalog that is
\* used through its own operations
MaxOps == 2
\* copy_image_to_folder calls on a folder that is used on its own
MaxCopies == 3
\* process starts and folder removals
MaxRestarts == 1
MaxDeletes == 1
\* the clock: ticks of utcnow(), and how many of them make a day
MaxClock == 1
TicksPerDay == 1

Batches ==
    {Pick(Results, S) :
         S \in {T \in SUBSET DOMAIN Results : T # {} /\ Cardinality(T) <= MaxBatch}}

Thresholds == {DEFAULT_DUPLICATE_MERGE_THRESHOLD}

\* the thresholds a catalog is constructed with when it is used on its own
CatalogThresholds == {<<1, 2>>, DEFAULT_DUPLICATE_MERGE_THRESHOLD}

\* the iteration orders of a set of strings that the hash seed can give
HashOrders == {<<COND_GOOD, COND_FAIR, CAT_OTHER, CAT_TOOLS>>,
               <<CAT_TOOLS, CAT_OTHER, COND_FAIR, COND_GOOD>>}

\* date.today().isoformat() and datetime.utcnow().isoformat() at a clock value
DateStr(t) == <<"2","0","2","6","-","1","1","-","0">> \o IntToStr(1 + t \div TicksPerDay)
NowStr(t) == DateStr(t) \o <<"T">> \o IntToStr(t % TicksPerDay)

(***************************************************************************)
(* State                                                                   *)
(***************************************************************************)
VARIABLES
    entries,      \* ItemCatalog._entries of the running process
    catalogFile,  \* item_catalog.json: [exists, data]
    threshold,    \* ItemCatalog.threshold
    folders,      \* the item folders under the output folder
    inputFiles,   \* the image paths that exist in the input folder
    clock,        \* the time
    hashOrder,    \* set iteration order of the running process
    pc,           \* "idle"; inside _organize_and_list "organizing" (at the
                  \* head of the loop) and "matched" (after find_match);
                  \* "passed" (the pass returned), "saved" (after catalog.save);
                  \* "start" (no catalog constructed yet), "raised" (an
                  \* exception left the operation and ended the process)
    pending,      \* the groups the pass has not processed yet
    summaries,    \* the summaries of the pass
    batch,        \* the analyses given to the current or last pass
    used,         \* how many passes, calls, restarts, deletions happened
    last,         \* what the last operation was and returned
    scen,         \* progress of "pass, save, restart, same pass again"
    cur,          \* the match of the group the pass is at (match, line 208)
    run,          \* the analysis loop of main: the images still to analyse,
                  \* those skipped, model_index, how many runs started,
                  \* len(models), how many requests of the run failed on
                  \* the quota
    processed,    \* the names of the files in the processed folder
    summaryFile   \* summary.xlsx: [exists, rows]

vars == <<entries, catalogFile, threshold, folders, inputFiles, clock, hashOrder,
          pc, pending, summaries, batch, used, last, scen, cur, run, processed,
          summaryFile>>

NoLast == [op |-> "none", key |-> <<>>, title |-> <<>>, text |-> <<>>, names |-> <<>>,
           path |-> "none", folder |-> <<>>, match |-> NoMatch, existed |-> FALSE,
           source |-> <<>>, dest |-> <<>>, warnings |-> <<>>]

NoScen == [stage |-> "none", batch |-> <<>>]

\* the analysis loop before main started it
\* summary.xlsx does not exist
NoSummaryFile == [exists |-> FALSE, rows |-> <<>>]

NoRun == [todo |-> <<>>, skipped |-> {}, model_index |-> 0, runs |-> 0,
          models |-> 0, quota_failures |-> 0]

\* item_catalog.json when it does not exist.  The kind of a file that exists
\* is "json_list" (data holds the elements), "json_other" (a JSON value that
\* is no list), "not_json" (text json.loads rejects) or "not_utf8"
NoFile == [exists |-> FALSE, kind |-> "none", data |-> <<>>]

Init ==
    /\ entries = <<>>
    /\ catalogFile = NoFile
    /\ threshold \in Thresholds
    /\ folders = <<>>
    /\ inputFiles = {Results[i].image_path : i \in DOMAIN Results}
    /\ clock = 0
    /\ hashOrder \in HashOrders
    /\ pc = "idle"
    /\ pending = <<>>
    /\ summaries = <<>>
    /\ batch = <<>>
    /\ used = [passes |-> 0, calls |-> 0, restarts |-> 0, deletes |-> 0]
    /\ last = NoLast
    /\ scen = NoScen
    /\ cur = NoMatch
    /\ run = NoRun
    /\ processed = {}
    /\ summaryFile = NoSummaryFile

(***************************************************************************)
(* _organize_and_list, one group per step                                  *)
(***************************************************************************)
\* line 204: the canonical text of each group; it depends on the group
\* alone, and the pass keeps it with the group
WithCanonicalText(groups) ==
    [i \in DOMAIN groups |->
         [key |-> groups[i].key, members |-> groups[i].members,
          text |-> BuildCanonicalText(groups[i].key, groups[i].members)]]

\* lines 191-200: group the batch
BeginPass(b) ==
    /\ pc = "idle"
    /\ pc' = "organizing"
    /\ batch' = b
    /\ pending' = WithCanonicalText(GroupAnalysesByItem(b))
    /\ summaries' = <<>>
    /\ used' = [used EXCEPT !.passes = @ + 1]
    /\ last' = [NoLast EXCEPT !.op = "start_pass"]
    /\ scen' = IF scen.stage = "reloaded" /\ scen.batch = b
               THEN [scen EXCEPT !.stage = "second"]
               ELSE NoScen
    /\ UNCHANGED <<entries, catalogFile, threshold, folders, inputFiles, clock,
                   hashOrder, cur, run,
                   processed, summaryFile>>

\* a pass over any batch
StartPass(b) == used.passes < MaxPasses /\ BeginPass(b)

\* a pass over one image
StartSinglePass(b) == Len(b) = 1 /\ used.passes < MaxSinglePasses /\ BeginPass(b)

\* a pass over one image, among direct calls of the catalog
StartCatalogPass(b) ==
    Len(b) = 1 /\ used.calls + used.passes < MaxOps /\ BeginPass(b)

\* the copy loop stopping after the first member
CopyAllFirstOnly(fs, analyses, files, dest_folder) ==
    IF analyses # <<>> /\ analyses[1].image_path \in files
    THEN CopyImageToFolder(fs, analyses[1].image_name,
                           [kind |-> "image", src |-> analyses[1].image_path],
                           dest_folder)
    ELSE fs

\* lines 216-219 and 271-274: copy the members whose source exists
RECURSIVE CopyAll(_, _, _, _)
CopyAll(fs, analyses, files, dest_folder) ==
    IF analyses = <<>> THEN fs
    ELSE LET a == Head(analyses)
             fs1 == IF a.image_path \in files
                    THEN CopyImageToFolder(fs, a.image_name,
                                           [kind |-> "image", src |-> a.image_path],
                                           dest_folder)
                    ELSE fs
         IN CopyAll(fs1, Tail(analyses), files, dest_folder)

\* the first counter >= n for which listing_update_<date>_<n>.txt is free
RECURSIVE FreeNoteCounter(_, _, _)
FreeNoteCounter(files, today_str, n) ==
    IF (<<"l","i","s","t","i","n","g","_","u","p","d","a","t","e","_">>
        \o today_str \o <<"_">> \o IntToStr(n) \o <<".","t","x","t">>) \in DOMAIN files
    THEN FreeNoteCounter(files, today_str, n + 1)
    ELSE n

\* the name of the update note without the counter of lines 225-229
UpdateNoteNameNoCounter(files, today_str) ==
    <<"l","i","s","t","i","n","g","_","u","p","d","a","t","e","_">>
    \o today_str \o <<".","t","x","t">>

\* lines 222-229: the name of the update note
UpdateNoteName(files, today_str) ==
    LET update_filename ==
            <<"l","i","s","t","i","n","g","_","u","p","d","a","t","e","_">>
            \o today_str \o <<".","t","x","t">>
    IN IF update_filename \in DOMAIN files
       THEN <<"l","i","s","t","i","n","g","_","u","p","d","a","t","e","_">>
            \o today_str \o <<"_">> \o IntToStr(FreeNoteCounter(files, today_str, 2))
            \o <<".","t","x","t">>
       ELSE update_filename

\* lines 231-246: the text of the update note
UpdateNoteContent(existing_key, similarity, today_str, analyses, order) ==
    [kind |-> "note", merged_into |-> existing_key, score |-> similarity,
     date |-> today_str, merged |-> MergeAnalyses(analyses, order)]

\* lines 215-247: the folders after merging a group into existing_folder
MergeIntoFolder(fs, files, existing_folder, existing_key, similarity, today_str, analyses, order) ==
    LET copied == CopyAll(fs, analyses, files, existing_folder)
    IN WriteFile(copied, existing_folder,
                 UpdateNoteName(copied[existing_folder], today_str),
                 UpdateNoteContent(existing_key, similarity, today_str, analyses,
                                   order))

\* lines 269-276: the folders after creating a new item for a group
NewItemFolders(fs, files, item_key, analyses, order) ==
    LET item_folder == CreateItemFolderPath(fs, item_key)
    IN GenerateListing(CopyAll(CreateItemFolder(fs, item_key), analyses, files,
                               item_folder),
                       item_folder, analyses, order)

\* get_or_create_item_folder of the matched entry's key (line 212), <<>>
\* when there is no match
MatchFolder(fs, catalog, match) ==
    IF match.found THEN GetOrCreateItemFolder(fs, catalog[match.index].item_key)
    ELSE <<>>

\* the branches without the merge of lines 209-260: a match is ignored
GroupPathNoMerge(fs, catalog, match, item_key) ==
    IF GetOrCreateItemFolder(fs, item_key) # <<>>
       /\ IsAlreadyProcessed(fs, GetOrCreateItemFolder(fs, item_key)[1])
    THEN "skip"
    ELSE "new"

\* which way lines 209-284 take for a group: "merge", "skip" or "new"
GroupPath(fs, catalog, match, item_key) ==
    IF match.found /\ MatchFolder(fs, catalog, match) # <<>> THEN "merge"
    ELSE IF GetOrCreateItemFolder(fs, item_key) # <<>>
            /\ IsAlreadyProcessed(fs, GetOrCreateItemFolder(fs, item_key)[1])
         THEN "skip"
         ELSE "new"

\* lines 202-208: the next group, its canonical text and its match
MatchGroup ==
    /\ pc = "organizing"
    /\ pending # <<>>
    /\ pc' = "matched"
    /\ cur' = FindMatch(entries, threshold, Head(pending).text, Head(pending).key)
    /\ last' = [NoLast EXCEPT !.op = "find_match", !.key = Head(pending).key,
                   !.text = Head(pending).text,
                   !.match = cur']
    /\ UNCHANGED <<entries, catalogFile, threshold, folders, inputFiles, clock,
                   hashOrder, pending, summaries, batch, used, scen, run,
                   processed, summaryFile>>

\* lines 209-260: merge the group into the folder of the matched entry
MergeGroup ==
    /\ pc = "matched"
    /\ GroupPath(folders, entries, cur, Head(pending).key) = "merge"
    /\ folders' = MergeIntoFolder(folders, inputFiles,
                      MatchFolder(folders, entries, cur)[1],
                      entries[cur.index].item_key, cur.score, DateStr(clock),
                      Head(pending).members, hashOrder)
    /\ entries' = UpdateEntryImages(entries, NowStr(clock),
                                    entries[cur.index].item_key,
                                    ImageNames(Head(pending).members))
    /\ summaries' = Append(summaries,
                           GetListingSummary(MatchFolder(folders, entries, cur)[1],
                                             Head(pending).members, hashOrder))
    /\ last' = [NoLast EXCEPT !.op = "group", !.key = Head(pending).key,
                   !.path = "merge", !.match = cur,
                   !.names = ImageNames(Head(pending).members),
                   !.folder = MatchFolder(folders, entries, cur)[1]]
    /\ pending' = Tail(pending)
    /\ pc' = "organizing"
    /\ cur' = NoMatch
    /\ UNCHANGED <<catalogFile, threshold, inputFiles, clock, hashOrder, batch,
                   used, scen, run,
                   processed, summaryFile>>

\* lines 262-267: the group's folder holds a listing already
SkipGroup ==
    /\ pc = "matched"
    /\ GroupPath(folders, entries, cur, Head(pending).key) = "skip"
    /\ last' = [NoLast EXCEPT !.op = "group", !.key = Head(pending).key,
                   !.path = "skip", !.match = cur,
                   !.names = ImageNames(Head(pending).members),
                   !.folder = MakeFolderName(Head(pending).key)]
    /\ pending' = Tail(pending)
    /\ pc' = "organizing"
    /\ cur' = NoMatch
    /\ UNCHANGED <<entries, catalogFile, threshold, folders, inputFiles, clock,
                   hashOrder, summaries, batch, used, scen, run,
                   processed, summaryFile>>

\* lines 269-284: a new folder, listing and catalog entry for the group
NewGroup ==
    /\ pc = "matched"
    /\ GroupPath(folders, entries, cur, Head(pending).key) = "new"
    /\ folders' = NewItemFolders(folders, inputFiles, Head(pending).key,
                                 Head(pending).members, hashOrder)
    /\ summaries' = Append(summaries,
                           GetListingSummary(
                               CreateItemFolderPath(folders, Head(pending).key),
                               Head(pending).members, hashOrder))
    /\ entries' = AddEntry(entries, NowStr(clock), Head(pending).key,
                           MergeAnalyses(Head(pending).members, hashOrder).title,
                           Head(pending).text,
                           <<ImageNames(Head(pending).members)>>)
    /\ last' = [NoLast EXCEPT !.op = "group", !.key = Head(pending).key,
                   !.path = "new", !.match = cur,
                   !.names = ImageNames(Head(pending).members),
                   !.folder = CreateItemFolderPath(folders, Head(pending).key),
                   !.existed = KeyIndex(entries, Head(pending).key) # 0]
    /\ pending' = Tail(pending)
    /\ pc' = "organizing"
    /\ cur' = NoMatch
    /\ UNCHANGED <<catalogFile, threshold, inputFiles, clock, hashOrder, batch,
                   used, scen, run,
                   processed, summaryFile>>

\* lines 209-284: the rest of one iteration of the loop over the groups
ProcessGroup == MergeGroup \/ SkipGroup \/ NewGroup

\* line 286: return summaries
EndPass ==
    /\ pc = "organizing"
    /\ pending = <<>>
    /\ pc' = "passed"
    /\ last' = [NoLast EXCEPT !.op = "end_pass"]
    /\ scen' = IF scen.stage = "second"
               THEN [scen EXCEPT !.stage = "second_done"]
               ELSE [stage |-> "passed", batch |-> batch]
    /\ UNCHANGED <<entries, catalogFile, threshold, folders, inputFiles, clock,
                   hashOrder, pending, summaries, batch, used, cur, run,
                   processed, summaryFile>>

(***************************************************************************)
(* The catalog's persistence and the process around the pass               *)
(***************************************************************************)
\* ItemCatalog.save: json.dumps of lists of dicts of strings, which
\* json.loads reads back unchanged
SaveFile(catalog) == [exists |-> TRUE, kind |-> "json_list", data |-> catalog]

\* ItemCatalog.load, lines 40-60: the entries after a load that returns.
\* Text that is no JSON (JSONDecodeError), a path that cannot be read
\* (OSError) and a JSON value that is no list give the empty list; a JSON
\* list is taken as it is, whatever its elements are
Load(file) == IF file.exists /\ file.kind = "json_list" THEN file.data ELSE <<>>

\* load raises: read_text(encoding="utf-8") of bytes that are no UTF-8
\* raises UnicodeDecodeError, which line 56 does not catch
LoadRaises(file) == file.exists /\ file.kind = "not_utf8"

\* main.py 439: catalog.save() after the pass
Save ==
    /\ pc = "passed"
    /\ catalogFile' = SaveFile(entries)
    /\ pc' = "saved"
    /\ last' = [NoLast EXCEPT !.op = "save"]
    /\ scen' = IF scen.stage = "passed" THEN [scen EXCEPT !.stage = "saved"]
               ELSE NoScen
    /\ UNCHANGED <<entries, threshold, folders, inputFiles, clock, hashOrder,
                   pending, summaries, batch, used, cur, run,
                   processed, summaryFile>>

\* the images leaving the input folder before catalog.save()
MoveProcessedBeforeSave ==
    /\ pc = "passed"
    /\ inputFiles' = inputFiles \ {batch[i].image_path : i \in DOMAIN batch}
    /\ inputFiles' # inputFiles
    /\ processed' = MoveAllToProcessed(MovedNames(batch), processed)
    /\ last' = [NoLast EXCEPT !.op = "move"]
    /\ UNCHANGED <<entries, catalogFile, threshold, folders, clock, hashOrder, pc,
                   pending, summaries, batch, used, scen, cur, run, summaryFile>>

\* main.py 442-446 with _move_to_processed: the analysed images leave the
\* input folder
MoveProcessed ==
    /\ pc = "saved"
    /\ inputFiles' = inputFiles \ {batch[i].image_path : i \in DOMAIN batch}
    /\ pc' = "idle"
    /\ processed' = MoveAllToProcessed(MovedNames(batch), processed)
    /\ last' = [NoLast EXCEPT !.op = "move"]
    /\ UNCHANGED <<entries, catalogFile, threshold, folders, clock, hashOrder,
                   pending, summaries, batch, used, scen, cur, run, summaryFile>>

\* the process ends, at any point, and a new one starts: ItemCatalog.__init__
\* loads the catalog (main.py 381-384); the process has its own hash seed
Restart ==
    /\ pc \in {"idle", "organizing", "passed", "saved", "raised"}
    /\ used.restarts < MaxRestarts
    /\ entries' = Load(catalogFile)
    /\ hashOrder' \in HashOrders
    /\ pc' = IF LoadRaises(catalogFile) THEN "raised" ELSE "idle"
    /\ pending' = <<>>
    /\ used' = [used EXCEPT !.restarts = @ + 1]
    /\ last' = [NoLast EXCEPT !.op = "restart"]
    /\ scen' = IF scen.stage = "saved" THEN [scen EXCEPT !.stage = "reloaded"]
               ELSE NoScen
    /\ UNCHANGED <<catalogFile, threshold, folders, inputFiles, clock, summaries,
                   batch, cur, run,
                   processed, summaryFile>>

(***************************************************************************)
(* Direct calls of the catalog's operations                                *)
(***************************************************************************)
\* the image name lists the calls are given: empty, overlapping, with repeats
NameLists == {<<>>, <<IMG2, IMG1>>, <<IMG3, IMG2, IMG3>>}

\* the Optional[list] add_entry is given: None or a list
NameArgs == {<<>>} \cup {<<n>> : n \in NameLists}

\* the (item_key, title, canonical_text) the calls are given
Descriptions ==
    {<<Results[i].item_key,
       BuildTitle(Results[i].item_name, Results[i].condition),
       BuildCanonicalText(Results[i].item_key, <<Results[i]>>)>> :
         i \in DOMAIN Results}

AddEntryCall(d, image_names) ==
    /\ pc = "idle"
    /\ used.calls + used.passes < MaxOps
    /\ entries' = AddEntry(entries, NowStr(clock), d[1], d[2], d[3], image_names)
    /\ used' = [used EXCEPT !.calls = @ + 1]
    /\ last' = [NoLast EXCEPT !.op = "add_entry", !.key = d[1], !.title = d[2],
                   !.text = d[3],
                   !.names = image_names,
                   !.existed = KeyIndex(entries, d[1]) # 0]
    /\ scen' = NoScen
    /\ UNCHANGED <<catalogFile, threshold, folders, inputFiles, clock, hashOrder,
                   pc, pending, summaries, batch, cur, run,
                   processed, summaryFile>>

UpdateEntryImagesCall(item_key, new_image_names) ==
    /\ pc = "idle"
    /\ used.calls + used.passes < MaxOps
    /\ entries' = UpdateEntryImages(entries, NowStr(clock), item_key,
                                    new_image_names)
    /\ used' = [used EXCEPT !.calls = @ + 1]
    /\ last' = [NoLast EXCEPT !.op = "update_entry_images", !.key = item_key,
                   !.names = new_image_names,
                   !.existed = KeyIndex(entries, item_key) # 0]
    /\ scen' = NoScen
    /\ UNCHANGED <<catalogFile, threshold, folders, inputFiles, clock, hashOrder,
                   pc, pending, summaries, batch, cur, run,
                   processed, summaryFile>>

\* ItemCatalog.save, called on its own
SaveCall ==
    /\ pc = "idle"
    /\ last.op \in {"add_entry", "update_entry_images"}
    /\ catalogFile' = SaveFile(entries)
    /\ last' = [NoLast EXCEPT !.op = "save"]
    /\ UNCHANGED <<entries, threshold, folders, inputFiles, clock, hashOrder, pc,
                   pending, summaries, batch, used, scen, cur, run,
                   processed, summaryFile>>

\* find_match, called on its own; it changes nothing
FindMatchCall(canonical_text, item_key) ==
    /\ pc = "idle"
    /\ last.op # "find_match"
    /\ last' = [NoLast EXCEPT !.op = "find_match", !.key = item_key,
                   !.text = canonical_text,
                   !.match = FindMatch(entries, threshold, canonical_text,
                                       item_key)]
    /\ scen' = NoScen
    /\ UNCHANGED <<entries, catalogFile, threshold, folders, inputFiles, clock,
                   hashOrder, pc, pending, summaries, batch, used, cur, run,
                   processed, summaryFile>>

(***************************************************************************)
(* The environment                                                         *)
(***************************************************************************)
\* the user removes an item folder from the output folder
DeleteFolder(f) ==
    /\ pc = "idle"
    /\ used.deletes < MaxDeletes
    /\ f \in DOMAIN folders
    /\ folders' = [n \in DOMAIN folders \ {f} |-> folders[n]]
    /\ used' = [used EXCEPT !.deletes = @ + 1]
    /\ last' = [NoLast EXCEPT !.op = "delete_folder", !.folder = f]
    /\ scen' = NoScen
    /\ UNCHANGED <<entries, catalogFile, threshold, inputFiles, clock, hashOrder,
                   pc, pending, summaries, batch, cur, run,
                   processed, summaryFile>>

\* time passes
Tick ==
    /\ pc = "idle"
    /\ clock < MaxClock
    /\ clock' = clock + 1
    /\ UNCHANGED <<entries, catalogFile, threshold, folders, inputFiles, hashOrder,
                   pc, pending, summaries, batch, used, last, scen, cur, run,
                   processed, summaryFile>>

Next ==
    \/ \E b \in Batches : StartPass(b)
    \/ MatchGroup
    \/ ProcessGroup
    \/ EndPass
    \/ Save
    \/ MoveProcessed
    \/ Restart
    \/ \E f \in DOMAIN folders : DeleteFolder(f)
    \/ Tick

Spec == Init /\ [][Next]_vars

\* runs of one image each, which may end without a save, between which the
\* user may remove a folder
RecoveryNext ==
    \/ \E b \in Batches : StartSinglePass(b)
    \/ MatchGroup
    \/ ProcessGroup
    \/ EndPass
    \/ Save
    \/ MoveProcessed
    \/ Restart
    \/ \E f \in DOMAIN folders : DeleteFolder(f)
    \/ Tick

RecoverySpec == Init /\ [][RecoveryNext]_vars

\* a catalog used through its own operations, with any threshold, and in
\* passes over one image
CatalogInit ==
    /\ entries = <<>>
    /\ catalogFile = NoFile
    /\ threshold \in CatalogThresholds
    /\ folders = <<>>
    /\ inputFiles = {Results[i].image_path : i \in DOMAIN Results}
    /\ clock = 0
    /\ hashOrder \in HashOrders
    /\ pc = "idle"
    /\ pending = <<>>
    /\ summaries = <<>>
    /\ batch = <<>>
    /\ used = [passes |-> 0, calls |-> 0, restarts |-> 0, deletes |-> 0]
    /\ last = NoLast
    /\ scen = NoScen
    /\ cur = NoMatch
    /\ run = NoRun
    /\ processed = {}
    /\ summaryFile = NoSummaryFile

CatalogNext ==
    \/ \E d \in Descriptions, n \in NameArgs : AddEntryCall(d, n)
    \/ \E k \in Keys, n \in NameLists : UpdateEntryImagesCall(k, n)
    \/ \E d \in Descriptions : FindMatchCall(d[3], d[1])
    \/ SaveCall
    \/ Restart
    \/ \E b \in Batches : StartCatalogPass(b)
    \/ MatchGroup
    \/ ProcessGroup
    \/ EndPass
    \/ Save
    \/ MoveProcessed

CatalogSpec == CatalogInit /\ [][CatalogNext]_vars

(***************************************************************************)
(* copy_image_to_folder on its own: one folder with any files in it, and   *)
(* images of two input folders, some of the same name                      *)
(***************************************************************************)
PHOTO_JPG == <<"p","h","o","t","o",".","j","p","g">>
PHOTO_2_JPG == <<"p","h","o","t","o","_","2",".","j","p","g">>
PHOTO_3_JPG == <<"p","h","o","t","o","_","3",".","j","p","g">>
PHOTO == <<"p","h","o","t","o">>
BOX == <<"b","o","x">>

\* the source images: their folder and name
CopySources ==
    {<<d, n>> : d \in {<<"a">>, <<"b">>}, n \in {PHOTO_JPG, PHOTO_2_JPG, PHOTO}}

\* the content of a file is the path it was copied from
SourceContent(source) ==
    [kind |-> "image", src |-> source[1] \o <<"/">> \o source[2]]

\* the names of the files the folder may hold at the start
OldNames == {PHOTO_JPG, PHOTO_2_JPG, PHOTO_3_JPG, PHOTO}

CopyInit ==
    /\ entries = <<>>
    /\ catalogFile = NoFile
    /\ threshold = DEFAULT_DUPLICATE_MERGE_THRESHOLD
    /\ \E S \in SUBSET OldNames :
           folders = [f \in {BOX} |->
                         [n \in S |-> SourceContent(<<(<<"o","l","d">>), n>>)]]
    /\ inputFiles = {}
    /\ clock = 0
    /\ hashOrder \in HashOrders
    /\ pc = "idle"
    /\ pending = <<>>
    /\ summaries = <<>>
    /\ batch = <<>>
    /\ used = [passes |-> 0, calls |-> 0, restarts |-> 0, deletes |-> 0]
    /\ last = NoLast
    /\ scen = NoScen
    /\ cur = NoMatch
    /\ run = NoRun
    /\ processed = {}
    /\ summaryFile = NoSummaryFile

\* copy_image_to_folder(source, dest_folder) and the path it returns
CopyCall(source, dest_folder) ==
    /\ pc = "idle"
    /\ used.calls < MaxCopies
    /\ dest_folder \in DOMAIN folders
    /\ folders' = CopyImageToFolder(folders, source[2], SourceContent(source),
                                    dest_folder)
    /\ used' = [used EXCEPT !.calls = @ + 1]
    /\ last' = [NoLast EXCEPT !.op = "copy", !.source = source,
                   !.folder = dest_folder,
                   !.dest = CopyDest(folders, source[2], dest_folder)]
    /\ UNCHANGED <<entries, catalogFile, threshold, inputFiles, clock, hashOrder,
                   pc, pending, summaries, batch, scen, cur, run,
                   processed, summaryFile>>

CopyNext == \E source \in CopySources : CopyCall(source, BOX)

CopySpec == CopyInit /\ [][CopyNext]_vars

(***************************************************************************)
(* The organizer's operations on their own: create_item_folder on an       *)
(* output folder that fills up, group_analyses_by_item and                 *)
(* detect_similar_groups on lists of classification results                *)
(***************************************************************************)
\* image_organizer.py: DUPLICATE_SIMILARITY_THRESHOLD = 0.6
DUPLICATE_SIMILARITY_THRESHOLD == <<3, 5>>

\* create_item_folder calls, and the longest list of results that is grouped
MaxCreates == 3
MaxGroupInput == 3

KEY_ABCD == <<"a","_","b","_","c","_","d">>
KEY_ABCE == <<"a","_","b","_","c","_","e">>
KEY_BC == <<"b","_","c">>

\* the result _parse_analysis_response gives for a response that names only
\* the item key
KeyOnlyResult(image_name, item_key) ==
    [image_path |-> ImagePath(image_name), image_name |-> image_name,
     item_key |-> item_key,
     item_name |-> <<"U","n","k","n","o","w","n"," ","I","t","e","m">>,
     description |-> <<>>, price |-> <<10>>, condition |-> COND_GOOD,
     category |-> CAT_OTHER]

\* the results the lists are drawn from
GroupResults ==
    {Results[1], Results[2], Results[3],
     KeyOnlyResult(<<"q","1",".","j","p","g">>, KEY_ABCD),
     KeyOnlyResult(<<"q","2",".","j","p","g">>, KEY_ABCE),
     KeyOnlyResult(<<"q","3",".","j","p","g">>, KEY_BC)}

\* the lists of distinct results, in any order
ResultLists ==
    {xs \in UNION {[1..n -> GroupResults] : n \in 0..MaxGroupInput} :
         \A i, j \in DOMAIN xs : xs[i] = xs[j] => i = j}

\* the item keys create_item_folder is given
FolderKeys == {KEY_BM, KEY_CUP, <<"B"," ","M">>, <<"!">>}

\* _key_similarity
KeySimilarity(key_a, key_b) ==
    LET tokens_a == Range(Split(key_a, "_"))
        tokens_b == Range(Split(key_b, "_"))
    IN IF tokens_a = {} \/ tokens_b = {} THEN <<0, 1>>
       ELSE <<Cardinality(tokens_a \cap tokens_b),
              Cardinality(tokens_a \cup tokens_b)>>

\* the loops of detect_similar_groups warning only above the threshold
RECURSIVE WarningsFromStrict(_, _, _)
WarningsFromStrict(keys, i, j) ==
    IF i > Len(keys) THEN <<>>
    ELSE IF j > Len(keys) THEN WarningsFromStrict(keys, i + 1, i + 2)
    ELSE (IF RatLess(DUPLICATE_SIMILARITY_THRESHOLD, KeySimilarity(keys[i], keys[j]))
          THEN <<[key_a |-> keys[i], key_b |-> keys[j],
                  similarity |-> KeySimilarity(keys[i], keys[j])]>>
          ELSE <<>>)
         \o WarningsFromStrict(keys, i, j + 1)

\* the loops of detect_similar_groups from the pair (i, j) on: a warning is
\* the two keys and the similarity of its text
RECURSIVE WarningsFrom(_, _, _)
WarningsFrom(keys, i, j) ==
    IF i > Len(keys) THEN <<>>
    ELSE IF j > Len(keys) THEN WarningsFrom(keys, i + 1, i + 2)
    ELSE (IF RatLeq(DUPLICATE_SIMILARITY_THRESHOLD, KeySimilarity(keys[i], keys[j]))
          THEN <<[key_a |-> keys[i], key_b |-> keys[j],
                  similarity |-> KeySimilarity(keys[i], keys[j])]>>
          ELSE <<>>)
         \o WarningsFrom(keys, i, j + 1)

\* detect_similar_groups; groups is the dict as a sequence of [key, members]
DetectSimilarGroups(groups) ==
    WarningsFrom([g \in DOMAIN groups |-> groups[g].key], 1, 2)

\* create_item_folder(item_key, item_name) and the path it returns
CreateItemFolderCall(item_key) ==
    /\ pc = "idle"
    /\ used.calls < MaxCreates
    /\ folders' = CreateItemFolder(folders, item_key)
    /\ used' = [used EXCEPT !.calls = @ + 1]
    /\ last' = [NoLast EXCEPT !.op = "create_item_folder", !.key = item_key,
                   !.folder = CreateItemFolderPath(folders, item_key),
                   !.existed = MakeFolderName(item_key) \in DOMAIN folders]
    /\ UNCHANGED <<entries, catalogFile, threshold, inputFiles, clock, hashOrder,
                   pc, pending, summaries, batch, scen, cur, run,
                   processed, summaryFile>>

\* groups = organizer.group_analyses_by_item(analyses)
GroupCall(analyses) ==
    /\ pc = "idle"
    /\ batch' = analyses
    /\ pending' = GroupAnalysesByItem(analyses)
    /\ last' = [NoLast EXCEPT !.op = "group_analyses_by_item"]
    /\ UNCHANGED <<entries, catalogFile, threshold, folders, inputFiles, clock,
                   hashOrder, pc, summaries, used, scen, cur, run,
                   processed, summaryFile>>

\* organizer.detect_similar_groups(groups) on the groups of the last grouping
DetectCall ==
    /\ pc = "idle"
    /\ last.op = "group_analyses_by_item"
    /\ last' = [NoLast EXCEPT !.op = "detect_similar_groups",
                   !.warnings = DetectSimilarGroups(pending)]
    /\ UNCHANGED <<entries, catalogFile, threshold, folders, inputFiles, clock,
                   hashOrder, pc, pending, summaries, batch, used, scen, cur,
                   run,
                   processed, summaryFile>>

OrganizerNext ==
    \/ \E k \in FolderKeys : CreateItemFolderCall(k)
    \/ \E xs \in ResultLists : GroupCall(xs)
    \/ DetectCall

OrganizerSpec == Init /\ [][OrganizerNext]_vars

(***************************************************************************)
(* The catalog over a file of any content: load, then find_match and       *)
(* add_entry on what was loaded, and save with and without an I/O error    *)
(***************************************************************************)
\* load, find_match, add_entry and save calls on such a catalog
MaxPersistOps == 4

\* an element of a JSON list that is no object: a number, a string, null
NON_OBJECT == [json |-> "number"]

\* isinstance(e, dict), for the elements the lists hold
IsObject(e) == "item_key" \in DOMAIN e

\* the entry add_entry makes of a classification result
EntryOf(r) ==
    AddEntry(<<>>, NowStr(0), r.item_key, BuildTitle(r.item_name, r.condition),
             BuildCanonicalText(r.item_key, <<r>>), <<(<<r.image_name>>)>>)[1]

\* the contents item_catalog.json is found with
CatalogFiles ==
    {NoFile,
     [exists |-> TRUE, kind |-> "not_json", data |-> <<>>],
     [exists |-> TRUE, kind |-> "not_utf8", data |-> <<>>],
     [exists |-> TRUE, kind |-> "json_other", data |-> <<>>]}
    \cup {SaveFile(d) : d \in {<<>>, <<EntryOf(Results[1])>>,
                               <<EntryOf(Results[1]), EntryOf(Results[4])>>,
                               <<NON_OBJECT>>,
                               <<EntryOf(Results[1]), NON_OBJECT>>,
                               <<NON_OBJECT, EntryOf(Results[1])>>}}

\* index of the first element that is no object, 0 when all are objects
FirstNonObject(catalog) ==
    IF \E i \in DOMAIN catalog : ~IsObject(catalog[i])
    THEN CHOOSE i \in DOMAIN catalog :
             /\ ~IsObject(catalog[i])
             /\ \A j \in 1..(i - 1) : IsObject(catalog[j])
    ELSE 0

\* find_match raises: its loop calls entry.get on every element (line 102),
\* an AttributeError for an element that is no object
FindMatchRaises(catalog) == FirstNonObject(catalog) # 0

\* add_entry raises: its loop calls entry.get (line 195) on the elements up to
\* the first of the key
AddEntryRaises(catalog, item_key) ==
    /\ FirstNonObject(catalog) # 0
    /\ KeyIndex(SubSeq(catalog, 1, FirstNonObject(catalog) - 1), item_key) = 0

\* add_entry that returns, on a list that may hold elements that are no
\* objects behind the entry of the key
AddEntryLoaded(catalog, now, item_key, title, canonical_text, image_names) ==
    IF FirstNonObject(catalog) = 0
    THEN AddEntry(catalog, now, item_key, title, canonical_text, image_names)
    ELSE AddEntry(SubSeq(catalog, 1, FirstNonObject(catalog) - 1), now, item_key,
                  title, canonical_text, image_names)
         \o SubSeq(catalog, FirstNonObject(catalog), Len(catalog))

\* the file after a save that met an OSError: as it was when mkdir or the
\* opening failed; cut short, and no JSON, when the opening for writing had
\* emptied it and the writing failed
FailedSaveFiles(file) ==
    {file, [exists |-> TRUE, kind |-> "not_json", data |-> <<>>]}

PersistInit ==
    /\ entries = <<>>
    /\ catalogFile \in CatalogFiles
    /\ threshold = DEFAULT_DUPLICATE_MERGE_THRESHOLD
    /\ folders = <<>>
    /\ inputFiles = {}
    /\ clock = 0
    /\ hashOrder \in HashOrders
    /\ pc = "start"
    /\ pending = <<>>
    /\ summaries = <<>>
    /\ batch = <<>>
    /\ used = [passes |-> 0, calls |-> 0, restarts |-> 0, deletes |-> 0]
    /\ last = NoLast
    /\ scen = NoScen
    /\ cur = NoMatch
    /\ run = NoRun
    /\ processed = {}
    /\ summaryFile = NoSummaryFile

\* ItemCatalog(catalog_path, threshold) in a new process: __init__ calls load
LoadCall ==
    /\ pc \in {"start", "idle", "raised"}
    /\ used.calls < MaxPersistOps
    /\ entries' = Load(catalogFile)
    /\ pc' = IF LoadRaises(catalogFile) THEN "raised" ELSE "idle"
    /\ used' = [used EXCEPT !.calls = @ + 1]
    /\ last' = [NoLast EXCEPT !.op = "load"]
    /\ UNCHANGED <<catalogFile, threshold, folders, inputFiles, clock, hashOrder,
                   pending, summaries, batch, scen, cur, run,
                   processed, summaryFile>>

\* find_match on the loaded catalog
FindMatchLoadedCall(canonical_text, item_key) ==
    /\ pc = "idle"
    /\ used.calls < MaxPersistOps
    /\ pc' = IF FindMatchRaises(entries) THEN "raised" ELSE "idle"
    /\ used' = [used EXCEPT !.calls = @ + 1]
    /\ last' = [NoLast EXCEPT !.op = "find_match", !.key = item_key,
                   !.text = canonical_text,
                   !.match = IF FindMatchRaises(entries) THEN NoMatch
                             ELSE FindMatch(entries, threshold, canonical_text,
                                            item_key)]
    /\ UNCHANGED <<entries, catalogFile, threshold, folders, inputFiles, clock,
                   hashOrder, pending, summaries, batch, scen, cur, run,
                   processed, summaryFile>>

\* add_entry on the loaded catalog
AddEntryLoadedCall(d, image_names) ==
    /\ pc = "idle"
    /\ used.calls < MaxPersistOps
    /\ pc' = IF AddEntryRaises(entries, d[1]) THEN "raised" ELSE "idle"
    /\ entries' = IF AddEntryRaises(entries, d[1]) THEN entries
                  ELSE AddEntryLoaded(entries, NowStr(clock), d[1], d[2], d[3],
                                      image_names)
    /\ used' = [used EXCEPT !.calls = @ + 1]
    /\ last' = [NoLast EXCEPT !.op = "add_entry", !.key = d[1], !.title = d[2],
                   !.text = d[3], !.names = image_names]
    /\ UNCHANGED <<catalogFile, threshold, folders, inputFiles, clock, hashOrder,
                   pending, summaries, batch, scen, cur, run,
                   processed, summaryFile>>

\* save that writes the file
SaveLoadedCall ==
    /\ pc = "idle"
    /\ used.calls < MaxPersistOps
    /\ catalogFile' = SaveFile(entries)
    /\ used' = [used EXCEPT !.calls = @ + 1]
    /\ last' = [NoLast EXCEPT !.op = "save"]
    /\ UNCHANGED <<entries, threshold, folders, inputFiles, clock, hashOrder, pc,
                   pending, summaries, batch, scen, cur, run,
                   processed, summaryFile>>

\* save that meets an OSError, which lines 70-71 catch and log
SaveFailCall ==
    /\ pc = "idle"
    /\ used.calls < MaxPersistOps
    /\ catalogFile' \in FailedSaveFiles(catalogFile)
    /\ used' = [used EXCEPT !.calls = @ + 1]
    /\ last' = [NoLast EXCEPT !.op = "save_failed"]
    /\ UNCHANGED <<entries, threshold, folders, inputFiles, clock, hashOrder, pc,
                   pending, summaries, batch, scen, cur, run,
                   processed, summaryFile>>

PersistNext ==
    \/ LoadCall
    \/ \E d \in Descriptions : FindMatchLoadedCall(d[3], d[1])
    \/ \E d \in Descriptions, n \in NameArgs : AddEntryLoadedCall(d, n)
    \/ SaveLoadedCall
    \/ SaveFailCall

PersistSpec == PersistInit /\ [][PersistNext]_vars

(***************************************************************************)
(* The pass when a file operation fails: shutil.copy2, mkdir and           *)
(* write_text raise OSError, which neither _organize_and_list nor main     *)
(* catches                                                                 *)
(***************************************************************************)
\* passes of a run in which file operations may fail
MaxFaultPasses == 2

\* what a failed copy or write may leave at its destination: a cut-short file
PARTIAL == [kind |-> "partial"]

\* the folders when a copy of the loop of lines 216-219 / 271-274 raises: the
\* copies before it are done, and the failing one leaves nothing or a
\* cut-short file
CopyFailures(fs, analyses, files, dest_folder) ==
    UNION {LET done == CopyAll(fs, SubSeq(analyses, 1, k - 1), files, dest_folder)
           IN {done,
               WriteFile(done, dest_folder,
                         CopyDest(done, analyses[k].image_name, dest_folder),
                         PARTIAL)} :
               k \in {i \in DOMAIN analyses : analyses[i].image_path \in files}}

\* the folders when the new-item branch raises: at mkdir (line 269), at a
\* copy, or at the writing of listing.txt (line 276)
FailedNewItemFolders(fs, files, item_key, analyses) ==
    LET item_folder == CreateItemFolderPath(fs, item_key)
        created == CreateItemFolder(fs, item_key)
        copied == CopyAll(created, analyses, files, item_folder)
    IN {fs}
       \cup CopyFailures(created, analyses, files, item_folder)
       \cup {copied, WriteFile(copied, item_folder, LISTING_TXT, PARTIAL)}

\* the folders when the merge branch raises: at a copy, or at the writing of
\* the update note (line 247)
FailedMergeFolders(fs, files, existing_folder, today_str, analyses) ==
    LET copied == CopyAll(fs, analyses, files, existing_folder)
    IN CopyFailures(fs, analyses, files, existing_folder)
       \cup {copied,
             WriteFile(copied, existing_folder,
                       UpdateNoteName(copied[existing_folder], today_str),
                       PARTIAL)}

StartFaultPass(b) == used.passes < MaxFaultPasses /\ BeginPass(b)

\* an OSError in the merge branch leaves _organize_and_list and main
FailMergeGroup ==
    /\ pc = "matched"
    /\ GroupPath(folders, entries, cur, Head(pending).key) = "merge"
    /\ folders' \in FailedMergeFolders(folders, inputFiles,
                                       MatchFolder(folders, entries, cur)[1],
                                       DateStr(clock), Head(pending).members)
    /\ pc' = "raised"
    /\ last' = [NoLast EXCEPT !.op = "io_error", !.key = Head(pending).key,
                   !.path = "merge", !.match = cur,
                   !.folder = MatchFolder(folders, entries, cur)[1]]
    /\ UNCHANGED <<entries, catalogFile, threshold, inputFiles, clock, hashOrder,
                   pending, summaries, batch, used, scen, cur, run,
                   processed, summaryFile>>

\* an OSError in the new-item branch leaves _organize_and_list and main
FailNewGroup ==
    /\ pc = "matched"
    /\ GroupPath(folders, entries, cur, Head(pending).key) = "new"
    /\ folders' \in FailedNewItemFolders(folders, inputFiles, Head(pending).key,
                                         Head(pending).members)
    /\ pc' = "raised"
    /\ last' = [NoLast EXCEPT !.op = "io_error", !.key = Head(pending).key,
                   !.path = "new", !.match = cur,
                   !.folder = CreateItemFolderPath(folders, Head(pending).key)]
    /\ UNCHANGED <<entries, catalogFile, threshold, inputFiles, clock, hashOrder,
                   pending, summaries, batch, used, scen, cur, run,
                   processed, summaryFile>>

FaultNext ==
    \/ \E b \in Batches : StartFaultPass(b)
    \/ MatchGroup
    \/ ProcessGroup
    \/ FailMergeGroup
    \/ FailNewGroup
    \/ EndPass
    \/ Save
    \/ MoveProcessed
    \/ Restart

FaultSpec == Init /\ [][FaultNext]_vars

(***************************************************************************)
(* find_match and _compute_similarity on catalogs of any texts and keys,   *)
(* the empty string included, with thresholds up to 1.0                    *)
(***************************************************************************)
\* the entries of such a catalog
MaxScoreEntries == 2

ScoreTexts == {<<>>, <<"a">>, <<"a","b">>, <<"b","a">>, <<"A","b">>}
ScoreKeys == {<<>>, <<"_">>, KEY_BM, KEY_MB, <<"B","_","m">>}
ScoreThresholds == {<<0, 1>>, DEFAULT_DUPLICATE_MERGE_THRESHOLD, <<1, 1>>}

ScoreInit ==
    /\ entries = <<>>
    /\ catalogFile = NoFile
    /\ threshold \in ScoreThresholds
    /\ folders = <<>>
    /\ inputFiles = {}
    /\ clock = 0
    /\ hashOrder \in HashOrders
    /\ pc = "idle"
    /\ pending = <<>>
    /\ summaries = <<>>
    /\ batch = <<>>
    /\ used = [passes |-> 0, calls |-> 0, restarts |-> 0, deletes |-> 0]
    /\ last = NoLast
    /\ scen = NoScen
    /\ cur = NoMatch
    /\ run = NoRun
    /\ processed = {}
    /\ summaryFile = NoSummaryFile

\* add_entry(item_key, title, canonical_text)
AddScoreEntryCall(canonical_text, item_key) ==
    /\ pc = "idle"
    /\ Len(entries) < MaxScoreEntries
    /\ entries' = AddEntry(entries, NowStr(clock), item_key, ITEM_FOR_SALE,
                           canonical_text, <<>>)
    /\ last' = [NoLast EXCEPT !.op = "add_entry", !.key = item_key,
                   !.title = ITEM_FOR_SALE, !.text = canonical_text,
                   !.existed = KeyIndex(entries, item_key) # 0]
    /\ UNCHANGED <<catalogFile, threshold, folders, inputFiles, clock, hashOrder,
                   pc, pending, summaries, batch, used, scen, cur, run,
                   processed, summaryFile>>

ScoreNext ==
    \/ \E t \in ScoreTexts, k \in ScoreKeys : AddScoreEntryCall(t, k)
    \/ \E t \in ScoreTexts, k \in ScoreKeys : FindMatchCall(t, k)

ScoreSpec == ScoreInit /\ [][ScoreNext]_vars

(***************************************************************************)
(* ListingGenerator.get_listing_summary and _merge_analyses on lists of    *)
(* results that differ in name, condition, category and price              *)
(***************************************************************************)
\* the members of such a list
MaxMembers == 3

NAME_MUG == <<"M","u","g">>
NAME_GOOD_MUG == <<"g","o","o","d"," ","M","u","g">>
NAME_BLANK == <<" ">>
NAME_UNKNOWN == <<"U","n","k","n","o","w","n"," ","I","t","e","m">>

\* a result of _parse_analysis_response; the price <<>> is a value that is no
\* int or float
ListingResult(image_name, item_name, condition, category, price) ==
    [image_path |-> ImagePath(image_name), image_name |-> image_name,
     item_key |-> KEY_BM, item_name |-> item_name, description |-> <<>>,
     price |-> price, condition |-> condition, category |-> category]

ListingResults ==
    {ListingResult(IMG1, NAME_MUG, COND_GOOD, CAT_OTHER, <<10>>),
     ListingResult(IMG2, NAME_MUG, COND_GOOD, CAT_TOOLS, <<20>>),
     ListingResult(IMG3, NAME_MUG, COND_FAIR, CAT_TOOLS, <<>>),
     ListingResult(IMG4, NAME_GOOD_MUG, COND_FAIR, CAT_OTHER, <<>>),
     ListingResult(IMG1, <<>>, COND_GOOD, CAT_OTHER, <<5>>),
     ListingResult(IMG2, NAME_BLANK, COND_FAIR, CAT_OTHER, <<>>),
     ListingResult(IMG3, NAME_UNKNOWN, COND_GOOD, CAT_OTHER, <<10>>)}

ListingLists == UNION {[1..n -> ListingResults] : n \in 0..MaxMembers}

\* the iteration orders of the set of conditions and of the set of
\* categories do not depend on each other
ListingHashOrders ==
    HashOrders \cup {<<COND_FAIR, COND_GOOD, CAT_OTHER, CAT_TOOLS>>,
                     <<COND_GOOD, COND_FAIR, CAT_TOOLS, CAT_OTHER>>}

ListingInit ==
    /\ entries = <<>>
    /\ catalogFile = NoFile
    /\ threshold = DEFAULT_DUPLICATE_MERGE_THRESHOLD
    /\ folders = <<>>
    /\ inputFiles = {}
    /\ clock = 0
    /\ hashOrder \in ListingHashOrders
    /\ pc = "idle"
    /\ pending = <<>>
    /\ summaries = <<>>
    /\ batch = <<>>
    /\ used = [passes |-> 0, calls |-> 0, restarts |-> 0, deletes |-> 0]
    /\ last = NoLast
    /\ scen = NoScen
    /\ cur = NoMatch
    /\ run = NoRun
    /\ processed = {}
    /\ summaryFile = NoSummaryFile

\* get_listing_summary(item_folder, analyses); it changes nothing
GetListingSummaryCall(analyses) ==
    /\ pc = "idle"
    /\ batch' = analyses
    /\ summaries' = <<GetListingSummary(<<>>, analyses, hashOrder)>>
    /\ last' = [NoLast EXCEPT !.op = "get_listing_summary"]
    /\ UNCHANGED <<entries, catalogFile, threshold, folders, inputFiles, clock,
                   hashOrder, pc, pending, used, scen, cur, run,
                   processed, summaryFile>>

ListingNext == \E analyses \in ListingLists : GetListingSummaryCall(analyses)

ListingSpec == ListingInit /\ [][ListingNext]_vars

(***************************************************************************)
(* update_entry_images on catalogs of up to two entries, at different      *)
(* times, with keys that no entry has                                      *)
(***************************************************************************)
\* the keys update_entry_images is given: those of the results and one that
\* differs from "b_m" in letter case only
UpdateKeys == Keys \cup {<<"B","_","m">>}

UpdateNext ==
    \/ \E d \in Descriptions : AddScoreEntryCall(d[3], d[1])
    \/ \E k \in UpdateKeys, n \in NameLists : UpdateEntryImagesCall(k, n)
    \/ Tick

UpdateSpec == CatalogInit /\ [][UpdateNext]_vars

(***************************************************************************)
(* main: the analysis loop in front of the pass (lines 390-433), and what  *)
(* follows the pass (lines 435-446)                                        *)
(***************************************************************************)
\* the runs of main
MaxRuns == 2

\* len(DEFAULT_MODELS)
NumModels == 3

\* len(models) of _load_config, lines 64-70: the list of GEMINI_MODELS, the
\* one model of GEMINI_MODEL, or DEFAULT_MODELS
ModelCounts == {1, NumModels}

\* what happens inside analyze_image: the image is classified ("ok"), the
\* file cannot be opened ("load_failed"), the request fails or its answer
\* has no text ("api_error"), the model's quota or rate limit is exhausted
\* and the request raises the client's error for it ("quota")
AnalyzeCauses == {"ok", "load_failed", "api_error", "quota"}

\* analyze_image that gives a result whatever happened
AnalyzeImageNeverNone(image_path, cause) ==
    <<CHOOSE r \in Range(Results) : r.image_path = image_path>>

\* analyze_image, lines 99-127: <<result>> for a result, <<>> for None.
\* _load_image returns None on any exception, and "except Exception" turns
\* every exception of the request, the quota error included, into None;
\* no statement of image_analyzer.py raises RateLimitError
AnalyzeImage(image_path, cause) ==
    IF cause = "ok"
    THEN <<CHOOSE r \in Range(Results) : r.image_path = image_path>>
    ELSE <<>>

\* _get_processed_image_names without its second loop (lines 162-167)
ProcessedFolderNamesOnly(names, fs) ==
    {n \in names : FileSuffix(n) = <<".","j","p","g">>}

\* _get_processed_image_names (main.py 147-169): the names of the image
\* files in the processed folder and in the item folders
ProcessedImageNames(names, fs) ==
    {n \in names : FileSuffix(n) = <<".","j","p","g">>}
    \cup UNION {{n \in DOMAIN fs[f] : FileSuffix(n) = <<".","j","p","g">>} : f \in DOMAIN fs}

\* remaining_images (line 354): the input images, sorted by name, whose names
\* are not processed yet
RemainingImages(files, names, fs) ==
    LET all_images == [i \in DOMAIN Results |-> Results[i]]
        kept == SelectSeq(all_images,
                          LAMBDA r : /\ r.image_path \in files
                                     /\ r.image_name \notin ProcessedImageNames(names, fs))
    IN [i \in DOMAIN kept |-> kept[i].image_path]

\* main up to line 393, called once by a process: a run that has images to
\* analyse starts its loop
StartRun ==
    /\ pc = "idle"
    /\ last.op \in {"none", "restart"}
    /\ run.runs < MaxRuns
    /\ RemainingImages(inputFiles, processed, folders) # <<>>
    /\ pc' = "analyzing"
    /\ batch' = <<>>
    /\ summaries' = <<>>
    /\ \E models \in ModelCounts :
           run' = [todo |-> RemainingImages(inputFiles, processed, folders),
                   skipped |-> {}, model_index |-> 0, runs |-> run.runs + 1,
                   models |-> models, quota_failures |-> 0]
    /\ last' = [NoLast EXCEPT !.op = "start_run"]
    /\ scen' = NoScen
    /\ UNCHANGED <<entries, catalogFile, threshold, folders, inputFiles, clock,
                   hashOrder, pending, used, cur, processed, summaryFile>>

\* one turn of the for loop, lines 397-414: analyze_image returns, so the
\* try block ends without an exception; a result joins all_analyses and
\* successfully_analyzed, None is logged as a skipped image
AnalyzeNext(cause) ==
    /\ pc = "analyzing"
    /\ run.todo # <<>>
    /\ LET image_path == Head(run.todo)
           result == AnalyzeImage(image_path, cause)
       IN /\ batch' = batch \o result
          /\ run' = [run EXCEPT !.todo = Tail(@),
                                !.skipped = IF result = <<>>
                                            THEN @ \cup {image_path} ELSE @,
                                !.quota_failures = IF cause = "quota"
                                                   THEN @ + 1 ELSE @]
          /\ last' = [NoLast EXCEPT !.op = "analyze_image", !.path = cause,
                         !.source = image_path]
    /\ UNCHANGED <<entries, catalogFile, threshold, folders, inputFiles, clock,
                   hashOrder, pc, pending, summaries, used, scen, cur, processed, summaryFile>>

\* lines 435-439 with all_analyses: the pass starts
OrganizeRun ==
    /\ pc = "analyzing"
    /\ run.todo = <<>>
    /\ batch # <<>>
    /\ pc' = "organizing"
    /\ pending' = WithCanonicalText(GroupAnalysesByItem(batch))
    /\ used' = [used EXCEPT !.passes = @ + 1]
    /\ last' = [NoLast EXCEPT !.op = "start_pass"]
    /\ UNCHANGED <<entries, catalogFile, threshold, folders, inputFiles, clock,
                   hashOrder, summaries, batch, scen, cur, run,
                   processed, summaryFile>>

\* lines 435-446 without all_analyses: no pass, no save, nothing to move
FinishEmptyRun ==
    /\ pc = "analyzing"
    /\ run.todo = <<>>
    /\ batch = <<>>
    /\ pc' = "idle"
    /\ last' = [NoLast EXCEPT !.op = "end_run"]
    /\ UNCHANGED <<entries, catalogFile, threshold, folders, inputFiles, clock,
                   hashOrder, pending, summaries, batch, used, scen, cur, run,
                   processed, summaryFile>>

DriverNext ==
    \/ StartRun
    \/ \E cause \in AnalyzeCauses : AnalyzeNext(cause)
    \/ OrganizeRun
    \/ FinishEmptyRun
    \/ MatchGroup
    \/ ProcessGroup
    \/ EndPass
    \/ Save
    \/ MoveProcessed
    \/ Restart

DriverSpec == Init /\ [][DriverNext]_vars

(***************************************************************************)
(* main: the resume of lines 350-372, with images that come back to the    *)
(* input folder under a name that was processed before                     *)
(***************************************************************************)
\* Path(...).name of an input image
PathName(image_path) == SubSeq(image_path, Len(ImagePath(<<>>)) + 1, Len(image_path))

\* the user puts an image into the input folder while no process runs
AddInputImage(image_path) ==
    /\ pc = "idle"
    /\ image_path \notin inputFiles
    /\ inputFiles' = inputFiles \cup {image_path}
    /\ last' = [NoLast EXCEPT !.op = "add_image", !.source = image_path]
    /\ UNCHANGED <<entries, catalogFile, threshold, folders, clock, hashOrder, pc,
                   pending, summaries, batch, used, scen, cur, run, processed, summaryFile>>

\* main, lines 339-371, called once by a process: there are images and none
\* remains, so main returns at line 371
AllProcessedRun ==
    /\ pc = "idle"
    /\ last.op \in {"none", "restart"}
    /\ run.runs < MaxRuns
    /\ inputFiles # {}
    /\ RemainingImages(inputFiles, processed, folders) = <<>>
    /\ run' = [run EXCEPT !.runs = @ + 1]
    /\ last' = [NoLast EXCEPT !.op = "all_processed"]
    /\ UNCHANGED <<entries, catalogFile, threshold, folders, inputFiles, clock,
                   hashOrder, pc, pending, summaries, batch, used, scen, cur,
                   processed, summaryFile>>

ResumeNext ==
    \/ StartRun
    \/ AllProcessedRun
    \/ \E cause \in AnalyzeCauses : AnalyzeNext(cause)
    \/ OrganizeRun
    \/ FinishEmptyRun
    \/ MatchGroup
    \/ ProcessGroup
    \/ EndPass
    \/ Save
    \/ MoveProcessed
    \/ Restart
    \/ \E r \in Range(Results) : AddInputImage(r.image_path)

ResumeSpec == Init /\ [][ResumeNext]_vars

(***************************************************************************)
(* ExcelGenerator: summary.xlsx (src/src/excel_generator.py), written at   *)
(* the end of main (lines 447-450)                                         *)
(***************************************************************************)
\* the columns that hold text
TextColumns == {"item_name", "title", "description", "condition", "category",
                "folder_path"}

\* what pandas gives for an empty cell
NaN == <<"NaN">>

\* pd.read_excel(...).to_dict("records"), line 106-107: a row per record,
\* an empty cell read as NaN
ReadExcel(rows) ==
    [i \in DOMAIN rows |->
        [col \in DOMAIN rows[i] |->
            IF col \in TextColumns /\ rows[i][col] = <<>> THEN NaN ELSE rows[i][col]]]

\* generate with _write_excel, lines 44-88: a row per summary with the
\* columns of SUMMARY_COLUMNS, NaN and "" written as an empty cell
Generate(rows) ==
    [exists |-> TRUE,
     rows |-> [i \in DOMAIN rows |->
                 [col \in DOMAIN rows[i] |->
                     IF col \in TextColumns /\ rows[i][col] = NaN
                     THEN <<>> ELSE rows[i][col]]]]

\* by_path[summary.get("Folder Path", "")] = summary on a dict that keeps
\* the order of the first insertion
PutByPath(by_path, summary) ==
    IF \E i \in DOMAIN by_path : by_path[i].folder_path = summary.folder_path
    THEN [i \in DOMAIN by_path |->
             IF by_path[i].folder_path = summary.folder_path
             THEN summary ELSE by_path[i]]
    ELSE Append(by_path, summary)

\* lines 109-111: the dict comprehension and the loop
RECURSIVE PutAllByPath(_, _)
PutAllByPath(by_path, rows) ==
    IF rows = <<>> THEN by_path
    ELSE PutAllByPath(PutByPath(by_path, Head(rows)), Tail(rows))

\* append_or_update, lines 90-116, on a file that can be read
AppendOrUpdate(file, new_summaries) ==
    IF file.exists
    THEN Generate(PutAllByPath(PutAllByPath(<<>>, ReadExcel(file.rows)), new_summaries))
    ELSE Generate(new_summaries)

\* main, lines 447-450, after the move of the images
AppendOrUpdateCall ==
    /\ pc = "idle"
    /\ last.op = "move"
    /\ summaries # <<>>
    /\ summaryFile' = AppendOrUpdate(summaryFile, summaries)
    /\ last' = [NoLast EXCEPT !.op = "append_or_update"]
    /\ UNCHANGED <<entries, catalogFile, threshold, folders, inputFiles, clock,
                   hashOrder, pc, pending, summaries, batch, used, scen, cur, run,
                   processed>>

(***************************************************************************)
(* ImageAnalyzer: the parser of the model's answer                         *)
(* (src/src/image_analyzer.py, lines 129-193)                              *)
(***************************************************************************)
COND_NEW == <<"N","e","w">>
COND_LIKE_NEW == <<"L","i","k","e"," ","N","e","w">>
COND_POOR == <<"P","o","o","r">>

FB_CONDITIONS == <<COND_NEW, COND_LIKE_NEW, COND_GOOD, COND_FAIR, COND_POOR>>

FB_CATEGORIES ==
    <<<<"E","l","e","c","t","r","o","n","i","c","s">>,
      <<"H","o","m","e"," ","&"," ","G","a","r","d","e","n">>,
      <<"C","l","o","t","h","i","n","g"," ","&"," ","A","c","c","e","s","s","o","r","i","e","s">>,
      <<"C","o","l","l","e","c","t","i","b","l","e","s">>,
      <<"S","p","o","r","t","s"," ","&"," ","O","u","t","d","o","o","r","s">>,
      <<"T","o","y","s"," ","&"," ","G","a","m","e","s">>,
      <<"F","u","r","n","i","t","u","r","e">>,
      <<"A","p","p","l","i","a","n","c","e","s">>,
      <<"T","o","o","l","s">>,
      <<"B","o","o","k","s"," ","&"," ","M","e","d","i","a">>,
      <<"A","n","t","i","q","u","e","s">>,
      <<"O","t","h","e","r">>>>

\* the characters str.strip() removes, among those of the answers
Whitespace == {" ", "\n"}

\* s.startswith(prefix)
StartsWith(s, prefix) ==
    Len(prefix) <= Len(s) /\ SubSeq(s, 1, Len(prefix)) = prefix

\* text.splitlines() of a text whose line ends are "\n" and that does not
\* end with one: "" gives [], where split gives [""]
SplitLines(text) == IF text = <<>> THEN <<>> ELSE Split(text, "\n")

\* sorted(xs, key=len, reverse=True): longest first, equal lengths in the
\* order of xs (the sort is stable, also when reversed)
RECURSIVE SortedByLenDesc(_)
SortedByLenDesc(xs) ==
    IF xs = <<>> THEN <<>>
    ELSE LET m == MaxOf({Len(xs[i]) : i \in DOMAIN xs})
             p == MinOf({i \in DOMAIN xs : Len(xs[i]) = m})
         IN <<xs[p]>> \o SortedByLenDesc(SubSeq(xs, 1, p - 1) \o SubSeq(xs, p + 1, Len(xs)))

\* the value of a digit string
RECURSIVE DigitsToInt(_)
DigitsToInt(s) ==
    IF s = <<>> THEN 0
    ELSE 10 * DigitsToInt(SubSeq(s, 1, Len(s) - 1))
         + (CHOOSE d \in 0..9 : DigitChars[d + 1] = s[Len(s)])

\* lines 160-164: float(value.replace("$", "").replace(",", "")), 10.0 on
\* ValueError.  A non-empty digit string is its number; the other values
\* of the answers hold a letter or "/" and are no number.
ParsePrice(value) ==
    LET digits == SelectSeq(value, LAMBDA c : c \notin {"$", ","})
    IN IF digits # <<>> /\ \A i \in DOMAIN digits : digits[i] \in Range(DigitChars)
       THEN <<DigitsToInt(digits)>>
       ELSE <<DEFAULT_PRICE>>

\* lines 165-175: the first condition, longest first, whose lower-case form
\* is inside the lower-case value; "Good" if there is none
FuzzyCondition(value) ==
    LET conds == SortedByLenDesc(FB_CONDITIONS)
        hits == {i \in DOMAIN conds : Contains(Lower(value), Lower(conds[i]))}
    IN IF hits # {} THEN conds[MinOf(hits)] ELSE COND_GOOD

\* _sanitize_key without the fall back to "unknown_item"
SanitizeKeyNoFallback(key) ==
    LET stripped == Strip(Lower(key), Whitespace)
        kept == SelectSeq(stripped,
                          LAMBDA c : IsWordChar(c) \/ IsSpaceChar(c) \/ c = "-")
    IN Strip(CollapseSeparators(kept), {"_"})

\* _sanitize_key, lines 186-193
SanitizeKey(key) ==
    LET stripped == Strip(Lower(key), Whitespace)
        kept == SelectSeq(stripped,
                          LAMBDA c : IsWordChar(c) \/ IsSpaceChar(c) \/ c = "-")
        name == Strip(CollapseSeparators(kept), {"_"})
    IN IF name # <<>> THEN name ELSE UNKNOWN_ITEM

\* field_map (lines 146-155), in the order of the dict
FieldMap ==
    <<[prefix |-> <<"I","T","E","M","_","N","A","M","E">>, key |-> "item_name"],
      [prefix |-> <<"I","T","E","M","_","K","E","Y">>, key |-> "item_key"],
      [prefix |-> <<"D","E","S","C","R","I","P","T","I","O","N">>, key |-> "description"],
      [prefix |-> <<"C","O","N","D","I","T","I","O","N">>, key |-> "condition"],
      [prefix |-> <<"C","O","N","D","I","T","I","O","N","_","N","O","T","E","S">>, key |-> "condition_notes"],
      [prefix |-> <<"P","R","I","C","E">>, key |-> "price"],
      [prefix |-> <<"P","R","I","C","E","_","R","E","A","S","O","N","I","N","G">>, key |-> "price_reasoning"],
      [prefix |-> <<"C","A","T","E","G","O","R","Y">>, key |-> "category"]>>

\* lines 158-180 for one line: the first prefix of field_map the line starts
\* with, followed by ":", sets its field from the rest of the line
ParseLine(result, line) ==
    LET hits == {i \in DOMAIN FieldMap : StartsWith(line, FieldMap[i].prefix \o <<":">>)}
    IN IF hits = {} THEN result
       ELSE LET f == FieldMap[MinOf(hits)]
                value == Strip(SubSeq(line, Len(f.prefix) + 2, Len(line)), Whitespace)
            IN IF f.key = "price"
               THEN [result EXCEPT !.price = ParsePrice(value)]
               ELSE IF f.key = "condition" /\ value \notin Range(FB_CONDITIONS)
               THEN [result EXCEPT !.condition = FuzzyCondition(value)]
               ELSE IF f.key = "category" /\ value \notin Range(FB_CATEGORIES)
               THEN [result EXCEPT !.category = CAT_OTHER]
               ELSE [result EXCEPT ![f.key] = value]

RECURSIVE ParseLines(_, _)
ParseLines(result, lines) ==
    IF lines = <<>> THEN result
    ELSE ParseLines(ParseLine(result, Head(lines)), Tail(lines))

\* _parse_analysis_response(text, image_path), lines 129-184
ParseAnalysisResponse(text, image_name) ==
    LET defaults == [image_path |-> ImagePath(image_name),
                     image_name |-> image_name,
                     item_name |-> NAME_UNKNOWN,
                     item_key |-> UNKNOWN_ITEM,
                     description |-> <<>>,
                     condition |-> COND_GOOD,
                     condition_notes |-> <<>>,
                     price |-> <<DEFAULT_PRICE>>,
                     price_reasoning |-> <<>>,
                     category |-> CAT_OTHER,
                     raw_response |-> text]
        parsed == ParseLines(defaults, SplitLines(Strip(text, Whitespace)))
    IN [parsed EXCEPT !.item_key = SanitizeKey(parsed.item_key)]

\* the lines of the answers: fields with listed values, values in another
\* letter case, values that hold a listed word, unknown and empty values,
\* keys with punctuation, separators and capitals, a prefix that only
\* starts like another, an indented line and a line without a field
MaxLines == 3

ResponseLines ==
    {<<"C","O","N","D","I","T","I","O","N",":"," ","F","a","i","r">>,
     <<"C","O","N","D","I","T","I","O","N",":"," ","l","i","k","e"," ","n","e","w","!">>,
     <<"C","O","N","D","I","T","I","O","N",":"," ","W","o","r","n">>,
     <<"C","O","N","D","I","T","I","O","N",":">>,
     <<"C","O","N","D","I","T","I","O","N","_","N","O","T","E","S",":"," ","P","o","o","r">>,
     <<" ","C","O","N","D","I","T","I","O","N",":"," ","P","o","o","r">>,
     <<"C","A","T","E","G","O","R","Y",":"," ","T","o","o","l","s">>,
     <<"C","A","T","E","G","O","R","Y",":"," ","t","o","o","l","s">>,
     <<"C","A","T","E","G","O","R","Y",":"," ","H","o","m","e"," ","&"," ","G","a","r","d","e","n">>,
     <<"I","T","E","M","_","K","E","Y",":"," ","B","l","u","e"," ","-"," ","M","u","g","!">>,
     <<"I","T","E","M","_","K","E","Y",":"," ","-","_"," ">>,
     <<"I","T","E","M","_","K","E","Y",":"," ","a","_"," ","b">>,
     <<"P","R","I","C","E",":"," ","$","1",",","5">>,
     <<"P","R","I","C","E",":"," ","n","/","a">>,
     <<"M","u","g">>}

ResponseTexts ==
    {Join(ls, <<"\n">>) : ls \in UNION {[1..n -> ResponseLines] : n \in 0..MaxLines}}

\* the state when an answer has arrived
ParserInit ==
    /\ entries = <<>>
    /\ catalogFile = NoFile
    /\ threshold = DEFAULT_DUPLICATE_MERGE_THRESHOLD
    /\ folders = <<>>
    /\ inputFiles = {}
    /\ clock = 0
    /\ hashOrder = <<COND_GOOD, COND_FAIR, CAT_OTHER, CAT_TOOLS>>
    /\ pc = "idle"
    /\ pending = <<>>
    /\ summaries = <<>>
    /\ batch = <<>>
    /\ used = [passes |-> 0, calls |-> 0, restarts |-> 0, deletes |-> 0]
    /\ \E t \in ResponseTexts : last = [NoLast EXCEPT !.op = "answer", !.text = t]
    /\ scen = NoScen
    /\ cur = NoMatch
    /\ run = NoRun
    /\ processed = {}
    /\ summaryFile = NoSummaryFile

\* _parse_analysis_response(response.text, image_path) on the answer that
\* arrived (line 120); it changes nothing but gives the result
ParseAnalysisResponseCall ==
    /\ pc = "idle"
    /\ last.op = "answer"
    /\ batch' = <<ParseAnalysisResponse(last.text, IMG1)>>
    /\ last' = [last EXCEPT !.op = "parse_analysis_response"]
    /\ UNCHANGED <<entries, catalogFile, threshold, folders, inputFiles, clock,
                   hashOrder, pc, pending, summaries, used, scen, cur, run,
                   processed, summaryFile>>

ParserNext == ParseAnalysisResponseCall

ParserSpec == ParserInit /\ [][ParserNext]_vars

(***************************************************************************)
(* ImageAnalyzer: the parser of the grouping answer                        *)
(* (src/src/image_analyzer.py, lines 248-275)                              *)
(***************************************************************************)
\* s.split(sep, 1)
SplitOnce(s, sep) ==
    IF \A i \in DOMAIN s : s[i] # sep THEN <<s>>
    ELSE LET p == MinOf({i \in DOMAIN s : s[i] = sep})
         IN <<SubSeq(s, 1, p - 1), SubSeq(s, p + 1, Len(s))>>

GROUP_PREFIX == <<"G","R","O","U","P","_">>

\* path_by_name[fname], line 250: the last of the paths with this name
PathByName(valid_paths, fname) ==
    valid_paths[MaxOf({i \in DOMAIN valid_paths : PathName(valid_paths[i]) = fname})]

\* fname in path_by_name
IsKnownName(valid_paths, fname) ==
    \E i \in DOMAIN valid_paths : PathName(valid_paths[i]) = fname

\* the loop of lines 262-266 without the test of assigned
RECURSIVE TakeNamesRepeating(_, _, _, _)
TakeNamesRepeating(fnames, valid_paths, group_paths, assigned) ==
    IF fnames = <<>> THEN <<group_paths, assigned>>
    ELSE LET fname == Strip(Head(fnames), Whitespace)
         IN IF IsKnownName(valid_paths, fname)
            THEN TakeNamesRepeating(Tail(fnames), valid_paths,
                                    Append(group_paths, PathByName(valid_paths, fname)),
                                    assigned \cup {fname})
            ELSE TakeNamesRepeating(Tail(fnames), valid_paths, group_paths, assigned)

\* the loop of lines 262-266 over the names of one line: <<group_paths, assigned>>
RECURSIVE TakeNames(_, _, _, _)
TakeNames(fnames, valid_paths, group_paths, assigned) ==
    IF fnames = <<>> THEN <<group_paths, assigned>>
    ELSE LET fname == Strip(Head(fnames), Whitespace)
         IN IF IsKnownName(valid_paths, fname) /\ fname \notin assigned
            THEN TakeNames(Tail(fnames), valid_paths,
                           Append(group_paths, PathByName(valid_paths, fname)),
                           assigned \cup {fname})
            ELSE TakeNames(Tail(fnames), valid_paths, group_paths, assigned)

\* the loop of lines 254-268 over the lines: <<groups, assigned>>
RECURSIVE ParseGroupLines(_, _, _, _)
ParseGroupLines(lines, valid_paths, groups, assigned) ==
    IF lines = <<>> THEN <<groups, assigned>>
    ELSE LET line == Head(lines)
             parts == SplitOnce(line, ":")
         IN IF ~StartsWith(line, GROUP_PREFIX) \/ Len(parts) < 2
            THEN ParseGroupLines(Tail(lines), valid_paths, groups, assigned)
            ELSE LET filenames_str == Strip(parts[2], Whitespace)
                     taken == TakeNames(Split(filenames_str, ","), valid_paths,
                                        <<>>, assigned)
                 IN ParseGroupLines(Tail(lines), valid_paths,
                                    IF taken[1] # <<>> THEN Append(groups, taken[1])
                                    ELSE groups,
                                    taken[2])

\* _parse_grouping_response(text, valid_paths)
ParseGroupingResponse(text, valid_paths) ==
    LET parsed == ParseGroupLines(SplitLines(Strip(text, Whitespace)), valid_paths,
                                  <<>>, {})
        unassigned == SelectSeq(valid_paths, LAMBDA q : PathName(q) \notin parsed[2])
    IN parsed[1] \o [i \in DOMAIN unassigned |-> <<unassigned[i]>>]

\* the lines of a grouping answer
MaxGroupLines == 3

GroupingLines ==
    {<<"G","R","O","U","P","_","1",":"," ","p","1",".","j","p","g",","," ","p","2",".","j","p","g">>,
     <<"G","R","O","U","P","_","2",":"," ","p","2",".","j","p","g",",","p","3",".","j","p","g">>,
     <<"G","R","O","U","P","_","3",":"," ","p","9",".","j","p","g">>,
     <<"G","R","O","U","P","_","1">>,
     <<"G","R","O","U","P","_","4",":"," ","p","3",".","j","p","g"," ",","," ","p","3",".","j","p","g">>,
     <<"G","R","O","U","P","_","5",":"," ","[","p","1",".","j","p","g","]">>,
     <<"G","r","o","u","p"," ","6",":"," ","p","1",".","j","p","g">>,
     <<"G","R","O","U","P","_","7",":","p","1",".","j","p","g",":","x",",","p","2",".","j","p","g">>,
     <<" ","G","R","O","U","P","_","8",":"," ","p","1",".","j","p","g">>,
     <<"G","R","O","U","P","_","9",":">>}

GroupingTexts ==
    {Join(ls, <<"\n">>) : ls \in UNION {[1..n -> GroupingLines] : n \in 0..MaxGroupLines}}

\* valid_paths of group_similar_images, lines 212-218: the images of the folder
\* that could be loaded, in the order of the list
ValidPathLists ==
    {Pick([i \in DOMAIN Results |-> Results[i].image_path], T) :
        T \in SUBSET DOMAIN Results \ {{}}}

\* the state when a grouping answer has arrived for images that were loaded
GroupingInit ==
    /\ entries = <<>>
    /\ catalogFile = NoFile
    /\ threshold = DEFAULT_DUPLICATE_MERGE_THRESHOLD
    /\ folders = <<>>
    /\ inputFiles = {Results[i].image_path : i \in DOMAIN Results}
    /\ clock = 0
    /\ hashOrder = <<COND_GOOD, COND_FAIR, CAT_OTHER, CAT_TOOLS>>
    /\ pc = "idle"
    /\ pending = <<>>
    /\ summaries = <<>>
    /\ batch = <<>>
    /\ used = [passes |-> 0, calls |-> 0, restarts |-> 0, deletes |-> 0]
    /\ \E t \in GroupingTexts, valid_paths \in ValidPathLists :
           last = [NoLast EXCEPT !.op = "grouping_answer", !.text = t,
                                 !.names = valid_paths]
    /\ scen = NoScen
    /\ cur = NoMatch
    /\ run = NoRun
    /\ processed = {}
    /\ summaryFile = NoSummaryFile

\* _parse_grouping_response(response.text, valid_paths) on the answer that
\* arrived (line 242); it changes nothing but gives the groups
ParseGroupingResponseCall ==
    /\ pc = "idle"
    /\ last.op = "grouping_answer"
    /\ pending' = ParseGroupingResponse(last.text, last.names)
    /\ last' = [last EXCEPT !.op = "parse_grouping_response"]
    /\ UNCHANGED <<entries, catalogFile, threshold, folders, inputFiles, clock,
                   hashOrder, pc, summaries, batch, used, scen, cur, run,
                   processed, summaryFile>>

GroupingNext == ParseGroupingResponseCall

GroupingSpec == GroupingInit /\ [][GroupingNext]_vars

(***************************************************************************)
(* Passes over three related items: the first scores below the threshold   *)
(* against the second, the third at or above it against both and higher   *)
(* against the first                                                       *)
(*   p1.jpg  b_a_b  Mug  Good                                              *)
(*   p2.jpg  a_a    Mug  Good                                              *)
(*   p3.jpg  a_a_b  Mug  Good                                              *)
(***************************************************************************)
KEY_BAB == <<"b","_","a","_","b">>
KEY_AA == <<"a","_","a">>
KEY_AAB == <<"a","_","a","_","b">>

ChainResult(image_name, item_key) ==
    [image_path |-> ImagePath(image_name), image_name |-> image_name,
     item_key |-> item_key, item_name |-> NAME_MUG, description |-> <<>>,
     price |-> <<DEFAULT_PRICE>>, condition |-> COND_GOOD, category |-> CAT_OTHER]

ChainResults ==
    <<ChainResult(IMG1, KEY_BAB), ChainResult(IMG2, KEY_AA), ChainResult(IMG3, KEY_AAB)>>

ChainBatches ==
    {Pick(ChainResults, S) :
         S \in {T \in SUBSET DOMAIN ChainResults : T # {} /\ Cardinality(T) <= MaxBatch}}

ChainInit ==
    /\ entries = <<>>
    /\ catalogFile = NoFile
    /\ threshold = DEFAULT_DUPLICATE_MERGE_THRESHOLD
    /\ folders = <<>>
    /\ inputFiles = {ChainResults[i].image_path : i \in DOMAIN ChainResults}
    /\ clock = 0
    /\ hashOrder \in HashOrders
    /\ pc = "idle"
    /\ pending = <<>>
    /\ summaries = <<>>
    /\ batch = <<>>
    /\ used = [passes |-> 0, calls |-> 0, restarts |-> 0, deletes |-> 0]
    /\ last = NoLast
    /\ scen = NoScen
    /\ cur = NoMatch
    /\ run = NoRun
    /\ processed = {}
    /\ summaryFile = NoSummaryFile

\* a pass of main over images of the input folder (lines 353-354, 435-438)
StartChainPass(b) ==
    /\ used.passes < MaxPasses
    /\ \A i \in DOMAIN b : b[i].image_path \in inputFiles
    /\ BeginPass(b)

ChainNext ==
    \/ \E b \in ChainBatches : StartChainPass(b)
    \/ MatchGroup
    \/ ProcessGroup
    \/ EndPass
    \/ Save
    \/ MoveProcessed
    \/ Restart

ChainSpec == ChainInit /\ [][ChainNext]_vars

\* the passes over the three related items, each followed by the update of
\* summary.xlsx (main, lines 447-450)
SheetNext ==
    \/ \E b \in ChainBatches : StartChainPass(b)
    \/ MatchGroup
    \/ ProcessGroup
    \/ EndPass
    \/ Save
    \/ MoveProcessed
    \/ AppendOrUpdateCall
    \/ Restart

SheetSpec == ChainInit /\ [][SheetNext]_vars

(***************************************************************************)
(* Properties of the pass                                                  *)
(***************************************************************************)
\* r lists every element of a and of b once, in the order of their first
\* occurrence in a followed by b
IsDedupUnion(r, a, b) ==
    LET ab == a \o b
        First(x) == CHOOSE i \in DOMAIN ab :
                        ab[i] = x /\ \A j \in 1..(i - 1) : ab[j] # x
    IN /\ Range(r) = Range(ab)
       /\ \A i, j \in DOMAIN r : i < j => First(r[i]) < First(r[j])

\* the group the loop is at, the folder of the matched entry, the folder
\* named from the group's key
Group == Head(pending)
MatchedKey == entries[cur.index].item_key
MatchedFolder == MakeFolderName(MatchedKey)
GroupFolder == MakeFolderName(Group.key)

\* the files a step adds to folder f
NewFiles(f) == DOMAIN folders'[f] \ DOMAIN folders[f]

\* a step copies each member of the group whose source image exists into
\* folder f, as a file that was not there
CopiesGroupInto(f, old) ==
    \A i \in DOMAIN Group.members :
        Group.members[i].image_path \in inputFiles =>
            \E n \in DOMAIN folders'[f] \ old :
                folders'[f][n] = [kind |-> "image",
                                  src |-> Group.members[i].image_path]

\* C1: a second pass over the same batch, after the catalog was saved and
\* reloaded and with the first pass's files in place, skips every group: it
\* creates no folder, adds no catalog entry, copies no image, writes no file.
C1_SecondPassSkipsAll ==
    [][scen.stage = "second" =>
          /\ folders' = folders
          /\ Len(entries') = Len(entries)
          /\ (pc = "matched" => last'.path = "skip")]_vars

\* C5: a group whose match E has a folder is merged: no folder and no entry
\* is added, each member's existing image is copied into E's folder, one new
\* update note is written there, and E's names become the deduplicated union
\* of its names and the group's.
C5_MergePath ==
    [][(pc = "matched" /\ cur.found /\ MatchedFolder \in DOMAIN folders) =>
          /\ DOMAIN folders' = DOMAIN folders
          /\ \A f \in DOMAIN folders \ {MatchedFolder} : folders'[f] = folders[f]
          /\ [i \in DOMAIN entries' |-> entries'[i].item_key]
                 = [i \in DOMAIN entries |-> entries[i].item_key]
          /\ CopiesGroupInto(MatchedFolder, DOMAIN folders[MatchedFolder])
          /\ Cardinality({n \in NewFiles(MatchedFolder) :
                              folders'[MatchedFolder][n].kind = "note"}) = 1
          /\ Cardinality({n \in NewFiles(MatchedFolder) :
                              folders'[MatchedFolder][n].kind = "image"})
                 = Cardinality({i \in DOMAIN Group.members :
                                    Group.members[i].image_path \in inputFiles})
          /\ IsDedupUnion(entries'[cur.index].representative_image_names,
                          entries[cur.index].representative_image_names,
                          ImageNames(Group.members))
          /\ Len(entries'[cur.index].representative_image_names)
                 = Cardinality(Range(entries'[cur.index].representative_image_names))
          /\ pending' = Tail(pending)]_vars

\* an entry that held 2 names was merged with a group of 1 new image
C5_Witness ==
    /\ last.op = "group" /\ last.path = "merge"
    /\ Len(last.names) = 1
    /\ Len(entries[last.match.index].representative_image_names) = 3
    /\ \E n \in DOMAIN folders[last.folder] : folders[last.folder][n].kind = "note"

C8_FallsBackToNewItem ==
    [][(pc = "matched" /\ cur.found /\ MatchedFolder \notin DOMAIN folders) =>
          /\ \E f \in DOMAIN folders' \ DOMAIN folders :
                 /\ CopiesGroupInto(f, {})
                 /\ LISTING_TXT \in DOMAIN folders'[f]
          /\ \E i \in DOMAIN entries' : entries'[i].item_key = Group.key]_vars

\* C12: a merge of a group into the entry E sets E's canonical_text to the
\* canonical text of the merged group, its updated_at to the time of the
\* merge, and its names to the union with the group's names.
C12_MergeReplacesText ==
    [][(pc = "matched" /\ cur.found /\ MatchedFolder \in DOMAIN folders) =>
          /\ entries'[cur.index].canonical_text
                 = BuildCanonicalText(Group.key, Group.members)
          /\ entries'[cur.index].updated_at = NowStr(clock)
          /\ IsDedupUnion(entries'[cur.index].representative_image_names,
                          entries[cur.index].representative_image_names,
                          ImageNames(Group.members))]_vars

\* C17: when a copy, a folder creation, the writing of listing.txt or the
\* writing of an update note fails for a group, the pass goes on with the
\* next group, so that it returns and the catalog is saved.
C17_FailureDoesNotAbort ==
    [][last'.op = "io_error" =>
          /\ pc' = "organizing"
          /\ pending' = Tail(pending)]_vars

\* the names an update note of a date can get
NoteName(today_str) ==
    <<"l","i","s","t","i","n","g","_","u","p","d","a","t","e","_">>
    \o today_str \o <<".","t","x","t">>
NumberedNoteName(today_str, n) ==
    <<"l","i","s","t","i","n","g","_","u","p","d","a","t","e","_">>
    \o today_str \o <<"_">> \o IntToStr(n) \o <<".","t","x","t">>

\* C9: no step changes a listing.txt or an update note that exists, and the
\* note of a merge gets a name that was free: listing_update_<date>.txt, or
\* listing_update_<date>_<n>.txt for the smallest free n >= 2.
C9_NoOverwrite ==
    [][/\ \A f \in DOMAIN folders \cap DOMAIN folders' :
              \A n \in DOMAIN folders[f] :
                  folders[f][n].kind \in {"listing", "note"} =>
                      n \in DOMAIN folders'[f] /\ folders'[f][n] = folders[f][n]
       /\ (pc = "matched" /\ cur.found /\ MatchedFolder \in DOMAIN folders) =>
              \A n \in NewFiles(MatchedFolder) :
                  folders'[MatchedFolder][n].kind = "note" =>
                      IF NoteName(DateStr(clock)) \notin DOMAIN folders[MatchedFolder]
                      THEN n = NoteName(DateStr(clock))
                      ELSE \E k \in 2..(Cardinality(DOMAIN folders[MatchedFolder]) + 2) :
                               /\ n = NumberedNoteName(DateStr(clock), k)
                               /\ \A j \in 2..(k - 1) :
                                      NumberedNoteName(DateStr(clock), j)
                                          \in DOMAIN folders[MatchedFolder]]_vars

\* a merge wrote the second note of a day next to the first and listing.txt
C9_Witness ==
    /\ last.op = "group" /\ last.path = "merge"
    /\ NoteName(DateStr(clock)) \in DOMAIN folders[last.folder]
    /\ NumberedNoteName(DateStr(clock), 2) \in DOMAIN folders[last.folder]
    /\ LISTING_TXT \in DOMAIN folders[last.folder]

(***************************************************************************)
(* Properties of the catalog                                               *)
(***************************************************************************)
\* C2: no two entries of the catalog, in memory or in the saved file, have
\* the same item_key.
C2_KeysUnique ==
    /\ \A i, j \in DOMAIN entries :
           entries[i].item_key = entries[j].item_key => i = j
    /\ \A i, j \in DOMAIN catalogFile.data :
           catalogFile.data[i].item_key = catalogFile.data[j].item_key => i = j

\* add_entry was called for the key of an entry that a pass had made and
\* that a new process had loaded from the saved file
C2_Witness ==
    /\ last.op = "add_entry" /\ last.existed
    /\ used.passes = 1 /\ used.restarts = 1
    /\ Len(entries) = 1 /\ catalogFile.exists

\* C3: add_entry(key, ..., L1) for a new key followed by add_entry(key, ...,
\* L2) leaves one entry of the key, with the title and canonical text of the
\* second call and, as names, each name of L1 and L2 once, in the order of
\* first occurrence in L1 followed by L2.
C3_AddEntryTwice ==
    [][(/\ last.op = "add_entry" /\ ~last.existed /\ last.names # <<>>
        /\ last'.op = "add_entry" /\ last'.key = last.key
        /\ last'.names # <<>>) =>
          /\ Cardinality({i \in DOMAIN entries' :
                              entries'[i].item_key = last.key}) = 1
          /\ \A i \in DOMAIN entries' :
                 entries'[i].item_key = last.key =>
                     /\ entries'[i].title = last'.title
                     /\ entries'[i].canonical_text = last'.text
                     /\ IsDedupUnion(entries'[i].representative_image_names,
                                     last.names[1], last'.names[1])
                     /\ Len(entries'[i].representative_image_names)
                            = Cardinality(Range(last.names[1] \o last'.names[1]))]_vars

\* the second call gave [p2, p1] after a first call with [p3, p2, p3], and
\* changed the title and the text
C3_Witness ==
    /\ last.op = "add_entry" /\ last.existed
    /\ last.names = <<(<<IMG2, IMG1>>)>>
    /\ \E i \in DOMAIN entries :
           /\ entries[i].item_key = last.key
           /\ entries[i].representative_image_names = <<IMG3, IMG2, IMG1>>
           /\ entries[i].canonical_text = last.text
           /\ entries[i].canonical_text
                  # BuildCanonicalText(Results[1].item_key, <<Results[1]>>)
           /\ entries[i].item_key = Results[1].item_key

\* the score of the query of the last find_match against entry i
LastScore(i) ==
    Similarity(last.text, last.key, entries[i].canonical_text, entries[i].item_key)

\* C4: find_match returns nothing when every entry scores below the
\* threshold; a returned (entry, score) has the score of that entry, which
\* is at least the threshold and which no entry exceeds.
C4_FindMatch ==
    last.op = "find_match" =>
        /\ (\A i \in DOMAIN entries : RatLess(LastScore(i), threshold))
               => ~last.match.found
        /\ last.match.found =>
               /\ last.match.index \in DOMAIN entries
               /\ last.match.score = LastScore(last.match.index)
               /\ RatLeq(threshold, last.match.score)
               /\ \A i \in DOMAIN entries :
                      ~RatLess(last.match.score, LastScore(i))

\* find_match returned nothing for a catalog of two entries, one of which
\* scores higher than the other, both below the threshold
C4_Witness ==
    /\ last.op = "find_match" /\ ~last.match.found
    /\ Len(entries) = 2
    /\ RatLess(<<0, 1>>, LastScore(1))
    /\ RatLess(LastScore(1), LastScore(2))
    /\ RatLess(LastScore(2), threshold)

\* C13: add_entry, update_entry_images, find_match and the pass keep every
\* entry of the catalog at its position, with its item_key and created_at;
\* the sequence of entries only grows at its end.  A load is the one step
\* that replaces the entries.
C13_EntriesOnlyGrow ==
    [][last'.op # "restart" =>
          /\ Len(entries) <= Len(entries')
          /\ \A i \in DOMAIN entries :
                 /\ entries'[i].item_key = entries[i].item_key
                 /\ entries'[i].created_at = entries[i].created_at]_vars

\* add_entry updated the first of two entries, at a later time than the one
\* it was created at
C13_Witness ==
    /\ last.op = "group" /\ last.path = "new" /\ last.existed
    /\ Len(entries) = 2
    /\ entries[1].item_key = last.key
    /\ entries[1].updated_at # entries[1].created_at
    /\ entries[2].updated_at = entries[2].created_at

\* C14: whatever lists add_entry and update_entry_images are given, lists
\* that hold a name twice included, no entry's representative_image_names
\* holds a name twice.
C14_NamesHaveNoRepeats ==
    \A i \in DOMAIN entries :
        Len(entries[i].representative_image_names)
            = Cardinality(Range(entries[i].representative_image_names))

(***************************************************************************)
(* Properties of copy_image_to_folder                                      *)
(***************************************************************************)
\* <stem>_<n><suffix> of a file name
NumberedName(name, n) ==
    FileStem(name) \o <<"_">> \o IntToStr(n) \o FileSuffix(name)

\* C10: copy_image_to_folder writes the source to a path that did not exist,
\* the source's name if that is free and else <stem>_<n><suffix> for the
\* smallest free n >= 2, returns that path, and leaves every other file of
\* the folder as it was.
C10_CopyNeverOverwrites ==
    [][last'.op = "copy" =>
          LET old == folders[last'.folder]
              new == folders'[last'.folder]
              name == last'.source[2]
          IN /\ last'.dest \notin DOMAIN old
             /\ DOMAIN new = DOMAIN old \cup {last'.dest}
             /\ new[last'.dest] = SourceContent(last'.source)
             /\ \A n \in DOMAIN old : new[n] = old[n]
             /\ IF name \notin DOMAIN old THEN last'.dest = name
                ELSE \E k \in 2..(Cardinality(DOMAIN old) + 2) :
                         /\ last'.dest = NumberedName(name, k)
                         /\ \A j \in 2..(k - 1) :
                                NumberedName(name, j) \in DOMAIN old]_vars

\* two images named photo.jpg, of different folders, were copied into the
\* empty folder, which holds both
C10_Witness ==
    /\ last.op = "copy" /\ last.dest = PHOTO_2_JPG
    /\ DOMAIN folders[BOX] = {PHOTO_JPG, PHOTO_2_JPG}
    /\ folders[BOX][PHOTO_JPG] = SourceContent(<<(<<"a">>), PHOTO_JPG>>)
    /\ folders[BOX][PHOTO_2_JPG] = SourceContent(<<(<<"b">>), PHOTO_JPG>>)

(***************************************************************************)
(* Properties of the organizer's operations                                *)
(***************************************************************************)
\* C11: create_item_folder called for an item_key whose folder exists
\* returns the path of that folder and creates no folder: the set of folders
\* is the same after the call.
C11_CreateIsIdempotent ==
    [][(last'.op = "create_item_folder" /\ last'.existed) =>
          /\ folders' = folders
          /\ last'.folder = MakeFolderName(last'.key)]_vars

(***************************************************************************)
(* Properties of the catalog's persistence                                 *)
(***************************************************************************)
\* the file holds a JSON list of entry records
IsEntryList(file) ==
    /\ file.exists /\ file.kind = "json_list"
    /\ \A i \in DOMAIN file.data : IsObject(file.data[i])

\* C15: whatever the file holds, no load and no later find_match or
\* add_entry raises, and a load of anything but a list of entry records
\* leaves the catalog empty.
C15_LoadFailsSoft ==
    /\ pc # "raised"
    /\ (last.op = "load" /\ ~IsEntryList(catalogFile)) => entries = <<>>

\* C16: a save that meets an I/O error leaves the file as it was, leaves the
\* entries in memory as they were, and raises nothing.
C16_SaveAllOrNothing ==
    [][last'.op = "save_failed" =>
          /\ catalogFile' = catalogFile
          /\ entries' = entries
          /\ pc' = "idle"]_vars

\* position of the first result of a key in a list of results
FirstOfKey(analyses, key) ==
    CHOOSE i \in DOMAIN analyses :
        /\ analyses[i].item_key = key
        /\ \A j \in 1..(i - 1) : analyses[j].item_key # key

\* C18: the groups of group_analyses_by_item partition the list: every
\* result is a member of exactly one group, the members of a group have the
\* group's key, the groups stand in the order in which their keys first
\* appear in the list, and the members of a group in the order of the list.
C18_ExactPartition ==
    last.op = "group_analyses_by_item" =>
        /\ \A i \in DOMAIN batch :
               Cardinality({p \in (DOMAIN pending) \X (1..MaxGroupInput) :
                                /\ p[2] \in DOMAIN pending[p[1]].members
                                /\ pending[p[1]].members[p[2]] = batch[i]}) = 1
        /\ \A g \in DOMAIN pending :
               /\ pending[g].members # <<>>
               /\ \A k \in DOMAIN pending[g].members :
                      /\ pending[g].members[k].item_key = pending[g].key
                      /\ \E i \in DOMAIN batch : batch[i] = pending[g].members[k]
               /\ pending[g].members
                      = SelectSeq(batch, LAMBDA a : a.item_key = pending[g].key)
        /\ \A g, h \in DOMAIN pending :
               g < h => /\ pending[g].key # pending[h].key
                        /\ FirstOfKey(batch, pending[g].key)
                               < FirstOfKey(batch, pending[h].key)

\* a list of three results whose first and third have one key: two groups,
\* the first with two members
C18_Witness ==
    /\ last.op = "group_analyses_by_item"
    /\ Len(batch) = 3 /\ Len(pending) = 2
    /\ batch[1].item_key = batch[3].item_key
    /\ batch[1].item_key # batch[2].item_key
    /\ pending[1].members = <<batch[1], batch[3]>>
    /\ pending[2].members = <<batch[2]>>

\* the tokens of a key, and whether the Jaccard similarity of the token sets
\* of two keys is at least 0.6 = 3/5
TokenSet(key) == Range(Split(key, "_"))
JaccardAtLeastThreshold(key_a, key_b) ==
    3 * Cardinality(TokenSet(key_a) \cup TokenSet(key_b))
        <= 5 * Cardinality(TokenSet(key_a) \cap TokenSet(key_b))

\* C19: detect_similar_groups gives one warning for each pair of distinct
\* group keys whose token sets have a Jaccard similarity of 0.6 or more, no
\* warning for any other pair, and changes neither the groups nor the
\* catalog nor the folders.
C19_WarningsPerPair ==
    [][last'.op = "detect_similar_groups" =>
          /\ \A g, h \in DOMAIN pending :
                 g < h =>
                     Cardinality({w \in DOMAIN last'.warnings :
                                      {last'.warnings[w].key_a, last'.warnings[w].key_b}
                                          = {pending[g].key, pending[h].key}})
                         = IF JaccardAtLeastThreshold(pending[g].key, pending[h].key)
                           THEN 1 ELSE 0
          /\ \A w \in DOMAIN last'.warnings :
                 \E g, h \in DOMAIN pending :
                     /\ g # h
                     /\ last'.warnings[w].key_a = pending[g].key
                     /\ last'.warnings[w].key_b = pending[h].key
          /\ pending' = pending
          /\ entries' = entries
          /\ catalogFile' = catalogFile
          /\ folders' = folders]_vars

\* three groups of which one pair is at 3/5 exactly and the others below
C19_Witness ==
    /\ last.op = "detect_similar_groups"
    /\ Len(pending) = 3
    /\ Len(last.warnings) = 1
    /\ last.warnings[1].similarity = <<3, 5>>
    /\ {last.warnings[1].key_a, last.warnings[1].key_b} = {KEY_ABCD, KEY_ABCE}

(***************************************************************************)
(* Properties of the similarity score                                      *)
(***************************************************************************)
\* C20: an entry with the canonical_text and the item_key of the query scores
\* exactly 1.0 against it, and find_match with a threshold of at most 1.0
\* then returns a match, of score 1.0.
C20_IdenticalScoresOne ==
    last.op = "find_match" =>
        \A i \in DOMAIN entries :
            (entries[i].canonical_text = last.text /\ entries[i].item_key = last.key) =>
                /\ ComputeSimilarity(last.text, last.key, entries[i].canonical_text,
                                     entries[i].item_key) = <<1, 1>>
                /\ RatLeq(threshold, <<1, 1>>) =>
                       /\ last.match.found
                       /\ last.match.score = <<1, 1>>

\* the empty text and key were looked up, with threshold 1.0, in a catalog
\* whose second entry has the empty text and key
C20_Witness ==
    /\ last.op = "find_match"
    /\ last.text = <<>> /\ last.key = <<>>
    /\ threshold = <<1, 1>>
    /\ Len(entries) = 2
    /\ entries[2].canonical_text = <<>> /\ entries[2].item_key = <<>>
    /\ last.match.found /\ last.match.index = 2

\* a rational between 0 and 1
InUnitInterval(p) == RatLeq(<<0, 1>>, p) /\ RatLeq(p, <<1, 1>>)

\* the lower-cased tokens of a key, and the Jaccard similarity of the token
\* sets of two keys: 0 when a set is empty
LowerTokenSet(key) == Range(Split(Lower(key), "_"))
Jaccard(A, B) ==
    IF A # {} /\ B # {} THEN <<Cardinality(A \cap B), Cardinality(A \cup B)>> ELSE <<0, 1>>

\* C21: the score find_match gives an entry is 0.60 * the ratio of the texts
\* + 0.20 * the ratio of the keys + 0.20 * the Jaccard similarity of the keys'
\* token sets; each of the three lies in [0, 1] and so does the score.
C21_ScoreIsWeightedSum ==
    last.op = "find_match" =>
        \A i \in DOMAIN entries :
            LET text_ratio == SeqRatio(Lower(last.text), Lower(entries[i].canonical_text))
                key_ratio == SeqRatio(Lower(last.key), Lower(entries[i].item_key))
                jaccard == Jaccard(LowerTokenSet(last.key),
                                   LowerTokenSet(entries[i].item_key))
                score == Scores(entries, last.text, last.key)[i]
            IN /\ RatEq(score, RatAdd(RatAdd(RatMul(<<60, 100>>, text_ratio),
                                             RatMul(<<20, 100>>, key_ratio)),
                                      RatMul(<<20, 100>>, jaccard)))
               /\ InUnitInterval(text_ratio)
               /\ InUnitInterval(key_ratio)
               /\ InUnitInterval(jaccard)
               /\ InUnitInterval(score)
               /\ last.match.found /\ last.match.index = i => last.match.score = score

\* a query was scored against an entry with a text ratio of 1/2, a key ratio
\* of 1/3 and a Jaccard similarity of 1: texts "ab" and "ba", keys "B_m" and
\* "m_b"
C21_Witness ==
    /\ last.op = "find_match"
    /\ last.text = <<"a","b">> /\ last.key = <<"B","_","m">>
    /\ Len(entries) = 2
    /\ entries[2].canonical_text = <<"b","a">> /\ entries[2].item_key = KEY_MB
    /\ Scores(entries, last.text, last.key)[2] = <<17, 30>>

\* C22: when the key of the query or the key of the entry is empty, the
\* Jaccard component is 0: the score is 0.60 * the ratio of the texts + 0.20 *
\* the ratio of the keys, and the within-run similarity of the two keys is 0.
C22_EmptyKeyHasNoJaccard ==
    last.op = "find_match" =>
        \A i \in DOMAIN entries :
            (last.key = <<>> \/ entries[i].item_key = <<>>) =>
                LET text_ratio == SeqRatio(Lower(last.text),
                                           Lower(entries[i].canonical_text))
                    key_ratio == SeqRatio(Lower(last.key), Lower(entries[i].item_key))
                IN /\ TokenScore(last.key, entries[i].item_key) = <<0, 1>>
                   /\ RatEq(Scores(entries, last.text, last.key)[i],
                            RatAdd(RatMul(<<60, 100>>, text_ratio),
                                   RatMul(<<20, 100>>, key_ratio)))
                   /\ KeySimilarity(last.key, entries[i].item_key) = <<0, 1>>

(***************************************************************************)
(* Properties of the merge rule                                            *)
(***************************************************************************)
\* the conditions, the categories and the numeric prices of the members
ConditionsOf(analyses) == [i \in DOMAIN analyses |-> analyses[i].condition]
CategoriesOf(analyses) == [i \in DOMAIN analyses |-> analyses[i].category]
NumericPricesOf(analyses) ==
    LET numeric == SelectSeq(analyses, LAMBDA a : a.price # <<>>)
    IN [i \in DOMAIN numeric |-> numeric[i].price[1]]

\* v occurs in values, and no value occurs more often
IsMostFrequent(v, values) ==
    /\ \E i \in DOMAIN values : values[i] = v
    /\ \A i \in DOMAIN values : CountOf(values, values[i]) <= CountOf(values, v)

\* C23: for a non-empty list of results the merged condition is a value with
\* the most occurrences among the members, likewise the merged category, and
\* the merged price is the mean of the members' numeric prices, or 10.0 when
\* no member has a numeric price.
C23_MergeRule ==
    (last.op = "get_listing_summary" /\ batch # <<>>) =>
        LET prices == NumericPricesOf(batch)
        IN /\ IsMostFrequent(summaries[1].condition, ConditionsOf(batch))
           /\ IsMostFrequent(summaries[1].category, CategoriesOf(batch))
           /\ prices # <<>> =>
                  summaries[1].price[1] * Len(prices)
                      = SumSeq(prices) * summaries[1].price[2]
           /\ prices = <<>> => RatEq(summaries[1].price, <<10, 1>>)

\* conditions [Fair, Good, Good] gave Good, and prices [10, 20] with a member
\* that has no numeric price gave 15
C23_Witness ==
    /\ last.op = "get_listing_summary"
    /\ ConditionsOf(batch) = <<COND_FAIR, COND_GOOD, COND_GOOD>>
    /\ summaries[1].condition = COND_GOOD
    /\ NumericPricesOf(batch) = <<10, 20>>
    /\ summaries[1].price = <<15, 1>>

\* the first value of the list among those with the most occurrences
FirstMostFrequent(values) ==
    values[CHOOSE i \in DOMAIN values :
               /\ IsMostFrequent(values[i], values)
               /\ \A j \in 1..(i - 1) : ~IsMostFrequent(values[j], values)]

\* C24: the merged condition and the merged category of a list of results are
\* the same in every execution, whatever the iteration order of sets in the
\* process: the first value of the list among the most frequent ones.
C24_TieBreakIsDeterministic ==
    (last.op = "get_listing_summary" /\ batch # <<>>) =>
        /\ \A order \in ListingHashOrders :
               /\ MergeAnalyses(batch, order).condition = summaries[1].condition
               /\ MergeAnalyses(batch, order).category = summaries[1].category
        /\ summaries[1].condition = FirstMostFrequent(ConditionsOf(batch))
        /\ summaries[1].category = FirstMostFrequent(CategoriesOf(batch))

\* C25: the title is the first member's item name, without surrounding
\* spaces, followed by " - <condition> Condition" exactly when the merged
\* condition does not occur in the name, letter case aside; it is "Item for
\* Sale" when the name is empty, blank or "unknown item"; it is never empty.
C25_MergedTitle ==
    (last.op = "get_listing_summary" /\ batch # <<>>) =>
        LET name == Strip(batch[1].item_name, {" "})
            condition == summaries[1].condition
            title == summaries[1].title
            suffix == <<" ","-"," ">> \o condition
                      \o <<" ","C","o","n","d","i","t","i","o","n">>
            placeholder == name = <<>> \/ Lower(name) = Lower(NAME_UNKNOWN)
            occurs == \E i \in 1..(Len(name) - Len(condition) + 1) :
                          Lower(SubSeq(name, i, i + Len(condition) - 1)) = Lower(condition)
        IN /\ placeholder => title = ITEM_FOR_SALE
           /\ (~placeholder /\ ~occurs) => title = name \o suffix
           /\ (~placeholder /\ occurs) => title = name
           /\ title # <<>>

\* "good Mug" with the merged condition Good kept its name as the title
C25_Witness ==
    /\ last.op = "get_listing_summary"
    /\ Len(batch) = 3
    /\ batch[1].item_name = NAME_GOOD_MUG
    /\ summaries[1].condition = COND_GOOD
    /\ summaries[1].title = NAME_GOOD_MUG

(***************************************************************************)
(* Properties of update_entry_images                                       *)
(***************************************************************************)
\* C26: update_entry_images(key, names) leaves the catalog as it is when no
\* entry has the key; otherwise the entry of the key gets the old names
\* followed by the new ones, without repeats and in order, and the time of
\* the call as updated_at, and nothing else changes: not its key, title,
\* canonical_text or created_at, not another entry, not the catalog file.
C26_UpdateEntryImagesFrame ==
    [][(last'.op = "update_entry_images" /\ used'.calls = used.calls + 1) =>
          LET hits == {i \in DOMAIN entries : entries[i].item_key = last'.key}
          IN /\ pc' # "raised"
             /\ catalogFile' = catalogFile
             /\ hits = {} => entries' = entries
             /\ hits # {} =>
                    /\ DOMAIN entries' = DOMAIN entries
                    /\ \A i \in DOMAIN entries :
                           IF i \in hits
                           THEN /\ IsDedupUnion(
                                       entries'[i].representative_image_names,
                                       entries[i].representative_image_names,
                                       last'.names)
                                /\ entries'[i].updated_at = NowStr(clock)
                                /\ entries'[i].item_key = entries[i].item_key
                                /\ entries'[i].title = entries[i].title
                                /\ entries'[i].canonical_text = entries[i].canonical_text
                                /\ entries'[i].created_at = entries[i].created_at
                           ELSE entries'[i] = entries[i]]_vars

\* a later call gave the names p3.jpg, p2.jpg, p3.jpg to one of two entries
C26_Witness ==
    /\ last.op = "update_entry_images"
    /\ last.names = <<IMG3, IMG2, IMG3>>
    /\ Len(entries) = 2
    /\ \E i \in DOMAIN entries :
           /\ entries[i].item_key = last.key
           /\ entries[i].updated_at # entries[i].created_at
           /\ entries[i].representative_image_names = <<IMG2, IMG1, IMG3>>

(***************************************************************************)
(* Properties of find_match                                                *)
(***************************************************************************)
\* the highest score of the query of the last find_match among the entries
BestScoreOf(scores) ==
    CHOOSE b \in Range(scores) : \A i \in DOMAIN scores : RatLeq(scores[i], b)

\* C30: when the catalog is not empty and the highest score among its entries
\* is at least the threshold, for any threshold, 0 included, find_match
\* returns a match: the first entry in catalog order that has that score.
C30_FindMatchComplete ==
    (last.op = "find_match" /\ entries # <<>>) =>
        LET scores == Scores(entries, last.text, last.key)
            best == BestScoreOf(scores)
        IN RatLeq(threshold, best) =>
               /\ last.match.found
               /\ RatEq(scores[last.match.index], best)
               /\ \A j \in 1..(last.match.index - 1) : RatLess(scores[j], best)

(***************************************************************************)
(* Properties of the driver                                                *)
(***************************************************************************)
\* C27: when the classification of an image fails because the quota of the
\* current model is exhausted, the image is not skipped like an image that
\* failed, and while another model is left the driver switches to it and
\* tries the same image again.
C27_QuotaSwitchesModel ==
    [][(last'.op = "analyze_image" /\ last'.path = "quota") =>
          /\ last'.source \notin run'.skipped
          /\ run.model_index + 1 < NumModels =>
                 /\ run'.model_index = run.model_index + 1
                 /\ run'.todo = run.todo]_vars

\* the image paths of the results collected
PathsOf(analyses) == {analyses[i].image_path : i \in DOMAIN analyses}

\* C28: when analyze_image returns no result for an image, the image is not
\* added to the results and the loop goes on with the next image; the image
\* is not moved out of the input folder; after the loop the next step of a
\* run that has results is the pass, over groups that hold every result
\* collected, and the catalog file holds the entries once the run has saved.
C28_FailureSkipsImage ==
    /\ [][(last'.op = "analyze_image" /\ last'.path # "ok") =>
              /\ batch' = batch
              /\ pc' = "analyzing"
              /\ run.todo # <<>>
              /\ run'.todo = Tail(run.todo)
              /\ run'.skipped = run.skipped \cup {Head(run.todo)}]_vars
    /\ [](run.skipped \cap PathsOf(batch) = {})
    /\ [][last'.op = "move" => run.skipped \cap inputFiles \subseteq inputFiles']_vars
    /\ [][last'.op = "start_pass" =>
              /\ \A i \in DOMAIN batch :
                     \E g \in DOMAIN pending' :
                         \E m \in DOMAIN pending'[g].members :
                             pending'[g].members[m] = batch[i]
              /\ batch' = batch]_vars
    /\ [][(pc = "analyzing" /\ run.todo = <<>> /\ batch # <<>>) =>
              /\ last'.op = "start_pass"
              /\ pc' = "organizing"]_vars
    /\ [](pc = "saved" => catalogFile.exists /\ catalogFile.data = entries)

\* a run in which p2.jpg failed after p1.jpg was classified has saved its
\* catalog, with an entry for the item of p1.jpg
C28_Witness ==
    /\ pc = "saved"
    /\ ImagePath(IMG2) \in run.skipped
    /\ ImagePath(IMG1) \in PathsOf(batch)
    /\ catalogFile.exists
    /\ \E i \in DOMAIN catalogFile.data :
           IMG1 \in Range(catalogFile.data[i].representative_image_names)

\* C29: in a run that classified an image, the step after the end of the
\* pass saves the catalog; no image leaves the input folder before that
\* save; the catalog does not change after it; and only a run without
\* results ends without a pass.
C29_SaveOrdering ==
    /\ [][pc = "passed" =>
              \/ /\ pc' = "saved"
                 /\ catalogFile'.exists
                 /\ catalogFile'.data = entries
                 /\ entries' = entries
                 /\ inputFiles' = inputFiles
              \/ last'.op = "restart"]_vars
    /\ [][inputFiles' # inputFiles =>
              /\ pc = "saved"
              /\ catalogFile.exists
              /\ catalogFile.data = entries]_vars
    /\ [][pc = "saved" => entries' = entries]_vars
    /\ [][last'.op = "end_run" => batch = <<>>]_vars

\* the images of a run were moved after its catalog was saved
C29_Witness ==
    /\ last.op = "move"
    /\ batch # <<>>
    /\ PathsOf(batch) \cap inputFiles = {}
    /\ catalogFile.exists
    /\ catalogFile.data = entries
    /\ entries # <<>>

(***************************************************************************)
(* Properties of the answer parser                                         *)
(***************************************************************************)
\* C31: whatever the answer, the result of _parse_analysis_response has a
\* condition of FB_CONDITIONS, a category of FB_CATEGORIES and a key that is
\* not empty, is in lower case, holds no blank and no hyphen, neither starts
\* nor ends with "_", and is its own folder name.
C31_ParsedResultIsNormal ==
    last.op = "parse_analysis_response" =>
        LET r == batch[1]
        IN /\ r.condition \in Range(FB_CONDITIONS)
           /\ r.category \in Range(FB_CATEGORIES)
           /\ r.item_key # <<>>
           /\ r.item_key = Lower(r.item_key)
           /\ \A i \in DOMAIN r.item_key :
                  IsWordChar(r.item_key[i]) /\ r.item_key[i] # "-"
           /\ Head(r.item_key) # "_"
           /\ r.item_key[Len(r.item_key)] # "_"
           /\ MakeFolderName(r.item_key) = r.item_key

\* an answer whose condition holds a listed one in another case, whose
\* category is not listed and whose key has capitals, blanks, a hyphen and
\* punctuation
C31_Witness ==
    /\ last.op = "parse_analysis_response"
    /\ Contains(last.text, <<"l","i","k","e"," ","n","e","w","!">>)
    /\ Contains(last.text, <<"C","A","T","E","G","O","R","Y",":"," ","t","o","o","l","s">>)
    /\ Contains(last.text, <<"B","l","u","e"," ","-"," ","M","u","g","!">>)
    /\ batch[1].condition = COND_LIKE_NEW
    /\ batch[1].category = CAT_OTHER
    /\ batch[1].item_key = <<"b","l","u","e","_","m","u","g">>

(***************************************************************************)
(* Properties of the groups of one pass                                    *)
(***************************************************************************)
\* the groups of the running pass, in first-seen key order, and those the
\* loop has finished
PassGroups == WithCanonicalText(GroupAnalysesByItem(batch))
EarlierGroups == SubSeq(PassGroups, 1, Len(PassGroups) - Len(pending))

\* the entries the new-item branch added for the group g: its key and text,
\* created and not changed since but for names merged in later
AddedFor(g) ==
    {i \in DOMAIN entries :
         /\ entries[i].item_key = g.key
         /\ entries[i].canonical_text = g.text
         /\ entries[i].created_at = entries[i].updated_at
         /\ Len(entries[i].representative_image_names) >= Len(g.members)
         /\ SubSeq(entries[i].representative_image_names, 1, Len(g.members))
                = ImageNames(g.members)}

\* the entries added for the groups before the current one of the pass
AddedEarlier == UNION {AddedFor(EarlierGroups[j]) : j \in DOMAIN EarlierGroups}

\* the score of the current group against the entry i
ScoreAgainst(i) ==
    Similarity(Head(pending).text, Head(pending).key,
               entries[i].canonical_text, entries[i].item_key)

\* C32 as stated: a group that scores at or above the threshold against the
\* entry added for an earlier group of the same pass is merged into the
\* folder of that entry and gets no folder and no entry of its own.
C32_MergedIntoEarlierGroup ==
    [][(pc = "matched" /\ pc' = "organizing") =>
          \A i \in AddedEarlier :
              RatLeq(threshold, ScoreAgainst(i)) =>
                  /\ last'.path = "merge"
                  /\ last'.folder = MakeFolderName(entries[i].item_key)
                  /\ Len(entries') = Len(entries)
                  /\ DOMAIN folders' = DOMAIN folders]_vars

\* C32, amended: find_match for a group sees the entries added for the
\* earlier groups of the pass: when the group scores at or above the
\* threshold against one of them, find_match returns that entry or one that
\* scores higher, or as high and stands before it; and a group for which it
\* returns an entry added in the pass is merged into the folder of that
\* entry's key: its images are there, and no folder and no entry is added.
C32_VisibleWithinPass ==
    /\ [][(pc = "organizing" /\ pc' = "matched") =>
              \A i \in AddedEarlier :
                  RatLeq(threshold, ScoreAgainst(i)) =>
                      /\ cur'.found
                      /\ \/ cur'.index = i
                         \/ RatLess(ScoreAgainst(i), cur'.score)
                         \/ cur'.index < i /\ cur'.score = ScoreAgainst(i)]_vars
    /\ [][(pc = "matched" /\ pc' = "organizing" /\ cur.found
              /\ cur.index \in AddedEarlier) =>
              /\ last'.path = "merge"
              /\ last'.folder = MakeFolderName(entries[cur.index].item_key)
              /\ Len(entries') = Len(entries)
              /\ DOMAIN folders' = DOMAIN folders
              /\ \A n \in Range(last'.names) : n \in DOMAIN folders'[last'.folder]]_vars

\* one pass over p2.jpg and p3.jpg: a_a became a new item and a_a_b was
\* merged into its folder
C32_Witness ==
    /\ used.passes = 1
    /\ Len(batch) = 2
    /\ batch[1].item_key = KEY_AA
    /\ last.op = "group"
    /\ last.path = "merge"
    /\ last.key = KEY_AAB
    /\ last.folder = KEY_AA
    /\ Len(entries) = 1
    /\ entries[1].representative_image_names = <<IMG2, IMG3>>
    /\ DOMAIN folders = {KEY_AA}
    /\ IMG3 \in DOMAIN folders[KEY_AA]

(***************************************************************************)
(* Properties of the images of a run                                       *)
(***************************************************************************)
\* the item folders that hold a copy of the image of this path
FoldersWithCopyOf(image_path) ==
    {f \in DOMAIN folders :
         \E n \in DOMAIN folders[f] :
             folders[f][n] = [kind |-> "image", src |-> image_path]}

\* C33: every image that leaves the input folder for the processed folder
\* has a copy in some item folder.
C33_NoImageLost ==
    [][last'.op = "move" =>
          \A image_path \in inputFiles \ inputFiles' :
              FoldersWithCopyOf(image_path)' # {}]_vars

(***************************************************************************)
(* Properties of the catalog and the folders together                      *)
(***************************************************************************)
\* C34: the folder get_or_create_item_folder finds for the key of a catalog
\* entry exists and holds the listing.txt of the item, whatever passes,
\* failed passes and reruns came before.
C34_EntryFolderHoldsListing ==
    \A i \in DOMAIN entries :
        LET found == GetOrCreateItemFolder(folders, entries[i].item_key)
        IN /\ found # <<>>
           /\ LISTING_TXT \in DOMAIN folders[found[1]]
           /\ folders[found[1]][LISTING_TXT].kind = "listing"


(***************************************************************************)
(* Properties of the resume                                                *)
(***************************************************************************)
\* the file name is in the processed folder or in an item folder
NameIsProcessed(name) ==
    name \in processed \/ \E f \in DOMAIN folders : name \in DOMAIN folders[f]

\* C35: an image whose file name is in the processed folder or in an item
\* folder is never classified, and a run that finds only such images in the
\* input folder ends without classifying, merging, saving or moving anything
C35_ResumeByFilename ==
    /\ [][(last'.op = "analyze_image" /\ run'.todo # run.todo)
          => ~NameIsProcessed(PathName(last'.source))]_vars
    /\ [][(run'.runs = run.runs + 1
           /\ inputFiles # {}
           /\ \A image_path \in inputFiles : NameIsProcessed(PathName(image_path)))
          => /\ pc' = "idle"
             /\ last'.op = "all_processed"
             /\ UNCHANGED <<entries, catalogFile, folders, inputFiles, processed,
                            batch, summaries, pending>>]_vars

\* a run ended at once on an input folder that holds an image whose name is
\* in the processed folder and in an item folder
C35_Witness ==
    /\ last.op = "all_processed"
    /\ \E image_path \in inputFiles :
          /\ PathName(image_path) \in processed
          /\ \E f \in DOMAIN folders : PathName(image_path) \in DOMAIN folders[f]


(***************************************************************************)
(* Properties of the analysis loop under quota failures                    *)
(***************************************************************************)
\* C36: within a run the model index never decreases, and once as many
\* requests have failed on the quota as there are models, all models are
\* exhausted and no further image is classified
C36_QuotaLoopBounded ==
    /\ [][run'.runs = run.runs => run'.model_index >= run.model_index]_vars
    /\ [][(last'.op = "analyze_image" /\ batch' # batch)
          => run.quota_failures < run.models]_vars


(***************************************************************************)
(* Properties of the spreadsheet                                           *)
(***************************************************************************)
\* the rows of the file for one Folder Path
RowsOf(file, folder_path) ==
    {i \in DOMAIN file.rows : file.rows[i].folder_path = folder_path}

\* the last of the summaries given for one Folder Path
LastSummaryFor(new_summaries, folder_path) ==
    new_summaries[MaxOf({i \in DOMAIN new_summaries :
                            new_summaries[i].folder_path = folder_path})]

\* C37: after append_or_update(summaries) the file holds at most one row per
\* Folder Path, the rows of the paths that are not among the new summaries
\* are the rows of before, and the row of a path among the new summaries is
\* the last new summary given for it
C37_UpsertByFolderPath ==
    [][(last.op = "move" /\ last'.op = "append_or_update")
       => LET new_paths == {summaries[i].folder_path : i \in DOMAIN summaries}
              old_paths == {summaryFile.rows[i].folder_path :
                               i \in DOMAIN summaryFile.rows}
          IN /\ \A fp \in old_paths \cup new_paths :
                    Cardinality(RowsOf(summaryFile', fp)) <= 1
             /\ \A fp \in old_paths \ new_paths :
                    {summaryFile'.rows[i] : i \in RowsOf(summaryFile', fp)}
                    = {summaryFile.rows[i] : i \in RowsOf(summaryFile, fp)}
             /\ \A fp \in new_paths :
                    \A i \in RowsOf(summaryFile', fp) :
                        summaryFile'.rows[i] = LastSummaryFor(summaries, fp)]_vars


(***************************************************************************)
(* Properties of the grouping parser                                       *)
(***************************************************************************)
\* the places of a path in the groups
PlacesOf(groups, image_path) ==
    {<<g, i>> \in (DOMAIN groups) \X (1..Len(last.names)) :
        i \in DOMAIN groups[g] /\ groups[g][i] = image_path}

\* C38: the groups _parse_grouping_response returns are a partition of the
\* valid paths: every valid path is in exactly one place, every member of a
\* group is a valid path, no group is empty, and a path whose name the answer
\* does not mention is a group of its own
C38_GroupsArePartition ==
    last.op = "parse_grouping_response"
    => /\ \A image_path \in Range(last.names) :
              Cardinality(PlacesOf(pending, image_path)) = 1
       /\ \A g \in DOMAIN pending :
              /\ pending[g] # <<>>
              /\ Range(pending[g]) \subseteq Range(last.names)
       /\ \A image_path \in Range(last.names) :
              ~Contains(last.text, PathName(image_path))
              => \E g \in DOMAIN pending : pending[g] = <<image_path>>

\* an answer that lists p2.jpg in two groups and an unknown name, and leaves
\* p4.jpg out: p2.jpg stays in the first group, p4.jpg is a group of its own
C38_Witness ==
    /\ last.op = "parse_grouping_response"
    /\ last.text = Join(<< <<"G","R","O","U","P","_","1",":"," ","p","1",".","j","p","g",","," ","p","2",".","j","p","g">>,
                           <<"G","R","O","U","P","_","2",":"," ","p","2",".","j","p","g",",","p","3",".","j","p","g">>,
                           <<"G","R","O","U","P","_","3",":"," ","p","9",".","j","p","g">> >>, <<"\n">>)
    /\ Len(last.names) = 4
    /\ pending = << <<last.names[1], last.names[2]>>, <<last.names[3]>>, <<last.names[4]>> >>

=============================================================================
